---- MODULE Spec2Model ----
(***************************************************************************)
(* DeepSeekV3Detector (python/sglang/srt/function_call/                    *)
(* deepseekv3_detector.py): the one-shot parser detect_and_parse and the   *)
(* incremental parser parse_streaming_increment.                           *)
(*                                                                         *)
(* Text is a sequence of characters.  A marker token of the source such as *)
(* "<|tool_calls_begin|>" is the two-character sequence                    *)
(*     << "<|", "tool_calls_begin|>" >>                                    *)
(* (opening bracket, then the word with its closing bracket), so that a    *)
(* fragment boundary can fall inside a marker.  Both characters contain    *)
(* the fullwidth bar, which the name class [^<|] of the regular            *)
(* expressions excludes.                                                   *)
(***************************************************************************)
EXTENDS Integers, Sequences, FiniteSets, TLC

\* ------------------------------------------------------------------------
\* Characters and marker tokens
\* ------------------------------------------------------------------------

LT == "<|"

bot_token == <<LT, "tool_calls_begin|>">>

eot_token == <<LT, "tool_calls_end|>">>

call_begin_token == <<LT, "tool_call_begin|>">>

sep_token == <<LT, "tool_sep|>">>

call_end_token == <<LT, "tool_call_end|>">>

\* one backquote character
BQ == "bq"

fence_token == <<BQ, BQ, BQ>>

NL == "\n"

SP == " "

\* characters that str.strip() removes and that JSON treats as whitespace
IsSpace(c) == c \in {SP, NL}

\* the characters the class [^<|] rejects: every character holding "<" or
\* the fullwidth bar
NameExcluded == {LT, "tool_calls_begin|>", "tool_calls_end|>",
                 "tool_call_begin|>", "tool_sep|>", "tool_call_end|>"}

\* ------------------------------------------------------------------------
\* str primitives (1-based positions; 0 means "not found")
\* ------------------------------------------------------------------------

Min(S) == CHOOSE x \in S : \A y \in S : x <= y

\* s[i:j] of Python with 1-based inclusive bounds; empty when i > j
Slice(s, i, j) == IF i > j THEN <<>> ELSE SubSeq(s, i, j)

\* s[i:] (1-based i)
From(s, i) == Slice(s, i, Len(s))

OccursAt(s, p, i) ==
    /\ i >= 1
    /\ i + Len(p) - 1 <= Len(s)
    /\ Slice(s, i, i + Len(p) - 1) = p

\* str.find(p, from): the first position >= from where p occurs, 0 if none
Find(s, p, from) ==
    LET hits == {i \in from..(Len(s) - Len(p) + 1) : OccursAt(s, p, i)}
    IN  IF hits = {} THEN 0 ELSE Min(hits)

\* p in s
Contains(s, p) == Find(s, p, 1) # 0

\* s.startswith(p)
StartsWith(s, p) == Len(p) <= Len(s) /\ Slice(s, 1, Len(p)) = p

\* s.strip()
Strip(s) ==
    LET keep == {i \in 1..Len(s) : ~IsSpace(s[i])}
    IN  IF keep = {} THEN <<>>
        ELSE Slice(s, Min(keep), CHOOSE x \in keep : \A y \in keep : y <= x)

RECURSIVE ReplaceFrom(_, _, _)
\* s.replace(p, "") scanning from position i: non-overlapping occurrences,
\* left to right
ReplaceFrom(s, p, i) ==
    IF i > Len(s) THEN <<>>
    ELSE IF OccursAt(s, p, i) THEN ReplaceFrom(s, p, i + Len(p))
    ELSE <<s[i]>> \o ReplaceFrom(s, p, i + 1)

Replace(s, p) == ReplaceFrom(s, p, 1)

\* ------------------------------------------------------------------------
\* JSON primitives.  Over the characters of this model (no quote, colon,
\* comma or square bracket) the JSON documents are exactly: optional
\* whitespace, then a number (a run of the digit "1") or an empty object
\* "{" whitespace "}", then optional whitespace.
\* ------------------------------------------------------------------------

AllSpace(s) == \A i \in 1..Len(s) : IsSpace(s[i])

IsNumber(t) == Len(t) >= 1 /\ \A i \in 1..Len(t) : t[i] = "1"

IsObject(t) ==
    /\ Len(t) >= 2
    /\ t[1] = "{"
    /\ t[Len(t)] = "}"
    /\ AllSpace(Slice(t, 2, Len(t) - 1))

\* json.loads(s) does not raise
JsonLoadsOk(s) == IsNumber(Strip(s)) \/ IsObject(Strip(s))

\* json.dumps(json.loads(s), ensure_ascii=False), for s with JsonLoadsOk(s)
JsonDumpsLoads(s) == IF IsNumber(Strip(s)) THEN Strip(s) ELSE <<"{", "}">>

\* _is_complete_json(s): one scan tracking bracket depth; true iff an opening
\* bracket was seen and the depth is back to zero at the end of the scan
\* (there is no quote character, so the scan is never inside a string)
IsCompleteJson(s) ==
    LET opens  == {i \in 1..Len(s) : s[i] = "{"}
        closes == {i \in 1..Len(s) : s[i] = "}"}
    IN  opens # {} /\ Cardinality(opens) = Cardinality(closes)

\* ------------------------------------------------------------------------
\* The regular expressions
\* ------------------------------------------------------------------------

\* m.start() and m.end() are kept 1-based: the first character of the match
\* and the first character after it
NoMatch == [found |-> FALSE, name |-> <<>>, args |-> <<>>, start |-> 0, end |-> 0]

\* end (exclusive) of the longest run of [^<|] characters starting at j
NameRunEnd(s, j) ==
    LET stops == {k \in j..Len(s) : s[k] \in NameExcluded}
    IN  IF stops = {} THEN Len(s) + 1 ELSE Min(stops)

\* "$" without re.MULTILINE: the end of the string, or just before a newline
\* that ends the string
AtDollar(s, q) == q = Len(s) + 1 \/ (q = Len(s) /\ s[q] = NL)

\* a match of  bot call_begin (?P<name>[^<|]+) sep  can start at i: the name
\* is the whole run up to the "<" that opens the separator
HeadAt(s, i) ==
    LET j == i + Len(bot_token \o call_begin_token)
        k == NameRunEnd(s, j)
    IN  /\ OccursAt(s, bot_token \o call_begin_token, i)
        /\ k > j
        /\ OccursAt(s, sep_token, k)

\* re.search(func_detail_regex, s, re.DOTALL):
\*   bot call_begin (?P<name>[^<|]+) sep (?P<args>.*?) call_end
func_detail_regex(s) ==
    LET starts == {i \in 1..Len(s) :
                     /\ HeadAt(s, i)
                     /\ Find(s, call_end_token,
                             NameRunEnd(s, i + Len(bot_token \o call_begin_token))
                               + Len(sep_token)) # 0}
    IN  IF starts = {} THEN NoMatch
        ELSE LET i == Min(starts)
                 j == i + Len(bot_token \o call_begin_token)
                 k == NameRunEnd(s, j)
                 a == k + Len(sep_token)
                 q == Find(s, call_end_token, a)
             IN  [found |-> TRUE, name |-> Slice(s, j, k - 1),
                  args |-> Slice(s, a, q - 1),
                  start |-> i, end |-> q + Len(call_end_token)]

\* the position where a lazy ".*?" starting at a stops when it is followed
\* by (call_end | $)
LazyEnd(s, a) ==
    Min({q \in a..(Len(s) + 1) : OccursAt(s, call_end_token, q) \/ AtDollar(s, q)})

\* the streaming pattern, re.search(..., re.DOTALL):
\*   bot call_begin (?P<name>[^<|]+?) sep (?P<args>.*?)(?=call_end|$)
partial_match(s) ==
    LET starts == {i \in 1..Len(s) : HeadAt(s, i)}
    IN  IF starts = {} THEN NoMatch
        ELSE LET i == Min(starts)
                 j == i + Len(bot_token \o call_begin_token)
                 k == NameRunEnd(s, j)
                 a == k + Len(sep_token)
             IN  [found |-> TRUE, name |-> Slice(s, j, k - 1),
                  args |-> Slice(s, a, LazyEnd(s, a) - 1),
                  start |-> i, end |-> LazyEnd(s, a)]

\* current_text[match.end():] for tool_call_end_pattern
\*   bot call_begin .*? (?:call_end|$)
\* and "" when the pattern does not match
BufferAfterCall(s) ==
    LET i == Find(s, bot_token \o call_begin_token, 1)
    IN  IF i = 0 THEN <<>>
        ELSE LET q == LazyEnd(s, i + Len(bot_token \o call_begin_token))
             IN  IF OccursAt(s, call_end_token, q)
                 THEN From(s, q + Len(call_end_token))
                 ELSE From(s, q)

\* ------------------------------------------------------------------------
\* Results
\* ------------------------------------------------------------------------

\* Python's None as a ToolCallItem name (no name is this sequence)
None == <<"None">>

ToolCallItem(tool_index, name, parameters) ==
    [tool_index |-> tool_index, name |-> name, parameters |-> parameters]

StreamingParseResult(normal_text, calls) ==
    [normal_text |-> normal_text, calls |-> calls]

\* has_tool_call looking for the token that closes the section
has_tool_call_looks_for_eot(text) == Contains(text, eot_token)

\* has_tool_call(text)
has_tool_call(text) == Contains(text, bot_token)

\* detect_and_parse with the raw arguments text passed on instead of its
\* re-serialized JSON
detect_and_parse_raw_arguments(text) ==
    LET idx == Find(text, bot_token, 1)
        normal_text == IF idx # 0 THEN Strip(Slice(text, 1, idx - 1)) ELSE text
        m == func_detail_regex(text)
    IN  IF ~Contains(text, bot_token)
        THEN StreamingParseResult(normal_text, <<>>)
        ELSE IF m.found /\ JsonLoadsOk(Strip(m.args))
        THEN StreamingParseResult(normal_text,
                 <<ToolCallItem(-1, Strip(m.name), Strip(m.args))>>)
        ELSE StreamingParseResult(normal_text, <<>>)

\* detect_and_parse with the text trimmed also when there is no bot token
detect_and_parse_always_strips(text) ==
    LET idx == Find(text, bot_token, 1)
        normal_text == Strip(IF idx # 0 THEN Slice(text, 1, idx - 1) ELSE text)
        m == func_detail_regex(text)
    IN  IF ~Contains(text, bot_token)
        THEN StreamingParseResult(normal_text, <<>>)
        ELSE IF m.found /\ JsonLoadsOk(Strip(m.args))
        THEN StreamingParseResult(normal_text,
                 <<ToolCallItem(-1, Strip(m.name), JsonDumpsLoads(Strip(m.args)))>>)
        ELSE StreamingParseResult(normal_text, <<>>)

\* detect_and_parse(text, tools): the value it returns
detect_and_parse(text) ==
    LET idx == Find(text, bot_token, 1)
        normal_text == IF idx # 0 THEN Strip(Slice(text, 1, idx - 1)) ELSE text
        m == func_detail_regex(text)
        func_name == Strip(m.name)
        args_text == Strip(m.args)
    IN  IF ~Contains(text, bot_token)
        THEN StreamingParseResult(normal_text, <<>>)
        ELSE IF m.found /\ JsonLoadsOk(args_text)
        THEN StreamingParseResult(normal_text,
                 <<ToolCallItem(-1, func_name, JsonDumpsLoads(args_text))>>)
        ELSE StreamingParseResult(normal_text, <<>>)

\* ------------------------------------------------------------------------
\* parse_streaming_increment
\* ------------------------------------------------------------------------

\* a value of prev_tool_call_arr[i]["arguments"]: a parsed JSON value (held
\* as its canonical text) or, when parsing failed, the raw string
ParsedValue(canon) == [is_str |-> FALSE, v |-> canon]

RawString(raw) == [is_str |-> TRUE, v |-> raw]

\* the entry {} that the padding loop appends
EmptyDict == [name |-> None, arguments |-> ParsedValue(None)]

\* the tokens removed from a fragment that is returned as normal text, in
\* the order of the loop
FilterTokens ==
    <<eot_token, fence_token, call_end_token, bot_token, call_begin_token,
      sep_token>>

RECURSIVE FilterFrom(_, _)
FilterFrom(s, k) ==
    IF k > Len(FilterTokens) THEN s
    ELSE FilterFrom(Replace(s, FilterTokens[k]), k + 1)

\* filtered_text
filtered_text(new_text) == FilterFrom(new_text, 1)

\* any(token in new_text for token in [bot, call_begin, sep])
HasOpeningToken(new_text) ==
    \/ Contains(new_text, bot_token)
    \/ Contains(new_text, call_begin_token)
    \/ Contains(new_text, sep_token)

\* list padded with x up to length n
PadTo(l, n, x) == l \o [i \in 1..(IF n > Len(l) THEN n - Len(l) ELSE 0) |-> x]

\* argument_diff without the fallback for a regressed match
argument_diff_suffix_only(func_args_raw, last_arguments) ==
    From(func_args_raw, Len(last_arguments) + 1)

\* argument_diff
argument_diff(func_args_raw, last_arguments) ==
    IF StartsWith(func_args_raw, last_arguments)
    THEN From(func_args_raw, Len(last_arguments) + 1)
    ELSE func_args_raw

\* StoredArguments dropping arguments that json.loads rejects
StoredArguments_drops_invalid(old, func_args_raw) ==
    IF func_args_raw = <<>> THEN old
    ELSE IF JsonLoadsOk(func_args_raw)
    THEN ParsedValue(JsonDumpsLoads(func_args_raw))
    ELSE old

\* the arguments stored for a finalized call
StoredArguments(old, func_args_raw) ==
    IF func_args_raw = <<>> THEN old
    ELSE IF JsonLoadsOk(func_args_raw)
    THEN ParsedValue(JsonDumpsLoads(func_args_raw))
    ELSE RawString(func_args_raw)

\* the state of a detector after __init__
NewDetector ==
    [buffer |-> <<>>,
     current_tool_id |-> -1,
     current_tool_name_sent |-> FALSE,
     last_arguments |-> <<>>,
     prev_tool_call_arr |-> <<>>,
     streamed_args_for_tool |-> <<>>]

\* InitOnFirstCall numbering the first call 1
InitOnFirstCall_starts_at_one(self) ==
    IF self.current_tool_id = -1
    THEN [self EXCEPT !.current_tool_id = 1,
                      !.prev_tool_call_arr = <<>>,
                      !.streamed_args_for_tool = <<<<>>>>,
                      !.current_tool_name_sent = FALSE]
    ELSE self

\* the state in which the first match finds the detector (lines 145-149)
InitOnFirstCall(self) ==
    IF self.current_tool_id = -1
    THEN [self EXCEPT !.current_tool_id = 0,
                      !.prev_tool_call_arr = <<>>,
                      !.streamed_args_for_tool = <<<<>>>>,
                      !.current_tool_name_sent = FALSE]
    ELSE self

\* EnsureEntries building both lists anew
EnsureEntries_resets(self) ==
    [self EXCEPT
       !.prev_tool_call_arr = PadTo(<<>>, self.current_tool_id + 1, EmptyDict),
       !.streamed_args_for_tool = PadTo(<<>>, self.current_tool_id + 1, <<>>)]

\* the two padding loops (lines 152-155); list index i is position i + 1
EnsureEntries(self) ==
    [self EXCEPT
       !.prev_tool_call_arr = PadTo(@, self.current_tool_id + 1, EmptyDict),
       !.streamed_args_for_tool = PadTo(@, self.current_tool_id + 1, <<>>)]

\* SendName that forgets to set current_tool_name_sent
SendName_flag_not_set(self, current_text, func_name) ==
    [self   |-> [self EXCEPT
                   !.buffer = current_text,
                   !.prev_tool_call_arr[self.current_tool_id + 1] =
                       [name |-> func_name,
                        arguments |-> ParsedValue(<<"{", "}">>)]],
     result |-> StreamingParseResult(<<>>,
                   <<ToolCallItem(self.current_tool_id, func_name, <<>>)>>)]

\* the branch that sends the name (lines 157-170)
SendName(self, current_text, func_name) ==
    [self   |-> [self EXCEPT
                   !.buffer = current_text,
                   !.current_tool_name_sent = TRUE,
                   !.prev_tool_call_arr[self.current_tool_id + 1] =
                       [name |-> func_name,
                        arguments |-> ParsedValue(<<"{", "}">>)]],
     result |-> StreamingParseResult(<<>>,
                   <<ToolCallItem(self.current_tool_id, func_name, <<>>)>>)]

\* SendArguments with a finalization that keeps _last_arguments
SendArguments_keeps_last_arguments(self, current_text, func_args_raw) ==
    LET diff  == argument_diff(func_args_raw, self.last_arguments)
        calls == IF diff # <<>>
                 THEN <<ToolCallItem(self.current_tool_id, None, diff)>>
                 ELSE <<>>
        sent  == [self EXCEPT
                    !.buffer = current_text,
                    !.last_arguments = @ \o diff,
                    !.streamed_args_for_tool[self.current_tool_id + 1] = @ \o diff]
        has_tool_call_end == Contains(current_text, call_end_token)
    IN  IF IsCompleteJson(func_args_raw) \/ has_tool_call_end
        THEN [self   |-> [sent EXCEPT
                            !.prev_tool_call_arr[self.current_tool_id + 1].arguments =
                                StoredArguments(@, func_args_raw),
                            !.buffer = BufferAfterCall(current_text),
                            !.current_tool_id = @ + 1,
                            !.current_tool_name_sent = FALSE],
              result |-> StreamingParseResult(<<>>, calls)]
        ELSE [self |-> sent, result |-> StreamingParseResult(<<>>, calls)]

\* SendArguments finalizing on complete JSON only, whatever markers arrived
SendArguments_ignores_call_end(self, current_text, func_args_raw) ==
    LET diff  == argument_diff(func_args_raw, self.last_arguments)
        calls == IF diff # <<>>
                 THEN <<ToolCallItem(self.current_tool_id, None, diff)>>
                 ELSE <<>>
        sent  == [self EXCEPT
                    !.buffer = current_text,
                    !.last_arguments = @ \o diff,
                    !.streamed_args_for_tool[self.current_tool_id + 1] = @ \o diff]
    IN  IF IsCompleteJson(func_args_raw)
        THEN [self   |-> [sent EXCEPT
                            !.prev_tool_call_arr[self.current_tool_id + 1].arguments =
                                StoredArguments(@, func_args_raw),
                            !.buffer = BufferAfterCall(current_text),
                            !.current_tool_id = @ + 1,
                            !.last_arguments = <<>>,
                            !.current_tool_name_sent = FALSE],
              result |-> StreamingParseResult(<<>>, calls)]
        ELSE [self |-> sent, result |-> StreamingParseResult(<<>>, calls)]

\* SendArguments that leaves streamed_args_for_tool alone
SendArguments_streamed_args_not_updated(self, current_text, func_args_raw) ==
    LET diff  == argument_diff(func_args_raw, self.last_arguments)
        calls == IF diff # <<>>
                 THEN <<ToolCallItem(self.current_tool_id, None, diff)>>
                 ELSE <<>>
        sent  == [self EXCEPT
                    !.buffer = current_text,
                    !.last_arguments = @ \o diff]
        has_tool_call_end == Contains(current_text, call_end_token)
    IN  IF IsCompleteJson(func_args_raw) \/ has_tool_call_end
        THEN [self   |-> [sent EXCEPT
                            !.prev_tool_call_arr[self.current_tool_id + 1].arguments =
                                StoredArguments(@, func_args_raw),
                            !.buffer = BufferAfterCall(current_text),
                            !.current_tool_id = @ + 1,
                            !.last_arguments = <<>>,
                            !.current_tool_name_sent = FALSE],
              result |-> StreamingParseResult(<<>>, calls)]
        ELSE [self |-> sent, result |-> StreamingParseResult(<<>>, calls)]

\* the branch that streams arguments and finalizes (lines 171-227)
SendArguments(self, current_text, func_args_raw) ==
    LET diff  == argument_diff(func_args_raw, self.last_arguments)
        calls == IF diff # <<>>
                 THEN <<ToolCallItem(self.current_tool_id, None, diff)>>
                 ELSE <<>>
        sent  == [self EXCEPT
                    !.buffer = current_text,
                    !.last_arguments = @ \o diff,
                    !.streamed_args_for_tool[self.current_tool_id + 1] = @ \o diff]
        has_tool_call_end == Contains(current_text, call_end_token)
    IN  IF IsCompleteJson(func_args_raw) \/ has_tool_call_end
        THEN [self   |-> [sent EXCEPT
                            !.prev_tool_call_arr[self.current_tool_id + 1].arguments =
                                StoredArguments(@, func_args_raw),
                            !.buffer = BufferAfterCall(current_text),
                            !.current_tool_id = @ + 1,
                            !.last_arguments = <<>>,
                            !.current_tool_name_sent = FALSE],
              result |-> StreamingParseResult(<<>>, calls)]
        ELSE [self |-> sent, result |-> StreamingParseResult(<<>>, calls)]

\* parse_streaming_increment(new_text, tools): the detector's next state and
\* the value returned
parse_streaming_increment(self, new_text) ==
    LET current_text == self.buffer \o new_text
        has_call == /\ Contains(current_text, bot_token)
                    /\ Contains(current_text, call_begin_token)
        m == partial_match(current_text)
        ready == EnsureEntries(InitOnFirstCall(self))
    IN  IF ~has_call
        THEN IF HasOpeningToken(new_text)
             THEN [self   |-> [self EXCEPT !.buffer = current_text],
                   result |-> StreamingParseResult(<<>>, <<>>)]
             ELSE [self   |-> [self EXCEPT !.buffer = <<>>],
                   result |-> StreamingParseResult(filtered_text(new_text), <<>>)]
        ELSE IF ~m.found
        THEN [self   |-> [self EXCEPT !.buffer = current_text],
              result |-> StreamingParseResult(<<>>, <<>>)]
        ELSE IF ~ready.current_tool_name_sent
        THEN SendName(ready, current_text, Strip(m.name))
        ELSE SendArguments(ready, current_text, Strip(m.args))

\* ------------------------------------------------------------------------
\* The texts of a turn
\* ------------------------------------------------------------------------

\* the most invocations of parse_streaming_increment in one turn
MaxFeeds == 4

\* the plain text before the call section
Prefixes == {<<>>, <<"x">>, <<SP, "x", NL>>}

Names == {<<"n">>, <<"m", SP>>}

Arguments == {<<"{", "}">>, <<"{", SP, "}">>, <<"1">>, <<"{">>, <<"{", "}", NL>>}

\* what follows the last call body
Tails == {<<>>, eot_token, <<"x">>}

\* bot call_begin name sep arguments call_end
CallSection(name, arguments) ==
    bot_token \o call_begin_token \o name \o sep_token \o arguments
        \o call_end_token

\* one well-formed call
SingleCallTexts ==
    {p \o CallSection(n, a) \o t :
        p \in Prefixes, n \in Names, a \in Arguments, t \in Tails}

\* the multi-call layout of the class docstring: one bot, two call bodies
\* with a newline between them, eot
MultiCallText ==
    CallSection(<<"n">>, <<"{", "}">>) \o <<NL>> \o call_begin_token \o <<"m">>
        \o sep_token \o <<"1">> \o call_end_token \o eot_token

\* two calls: the documented layout, the same without newline and eot, and
\* two call sections in a row
TwoCallTexts ==
    {MultiCallText,
     CallSection(<<"n">>, <<"{", "}">>) \o call_begin_token \o <<"m">>
         \o sep_token \o <<"1">> \o call_end_token,
     CallSection(<<"n">>, <<"1">>) \o CallSection(<<"m">>, <<"{", "}">>)}

\* call syntax that is incomplete or out of order
CorruptTexts ==
    {p \o h \o <<"n">> \o s \o a \o c \o t :
        p \in {<<"x">>},
        h \in {bot_token \o call_begin_token, bot_token, call_begin_token,
               bot_token \o <<"x">> \o call_begin_token},
        s \in {sep_token, <<>>},
        a \in {<<"{", "}">>, <<"1">>},
        c \in {call_end_token, <<>>},
        t \in {<<>>, eot_token}}

\* no call syntax, or stray markers only
PlainTexts ==
    {<<>>, <<"x">>, <<SP, "x", NL>>, <<"x">> \o call_end_token,
     <<"x">> \o eot_token \o <<"x">>, sep_token \o <<"x">>,
     <<"x", LT>>, fence_token \o <<"x">>, <<"x", LT, BQ, BQ, BQ, "tool_calls_end|>">>}

\* a call whose arguments are not JSON followed by a well-formed call, and a
\* call with no arguments text at all
MalformedCallTexts ==
    {CallSection(<<"n">>, <<"{">>) \o CallSection(<<"m">>, <<"1">>),
     CallSection(<<"n">>, <<>>) \o eot_token}

\* one call in the shape of build_ebnf's call rule: the word function, the
\* separator, the tool name, a newline, a json code fence holding the
\* arguments, between the sequence start and end tokens
GrammarCallText ==
    bot_token \o call_begin_token \o <<"function">> \o sep_token
        \o <<"n", NL>> \o fence_token \o <<"json", NL, "{", "}", NL>>
        \o fence_token \o call_end_token \o eot_token

Texts ==
    SingleCallTexts \cup TwoCallTexts \cup CorruptTexts \cup PlainTexts
        \cup MalformedCallTexts \cup {GrammarCallText}

\* the fragments two concurrent sessions are fed, and the most invocations
\* on one of them
SessionFragments ==
    {<<>>, <<"x">>, bot_token \o call_begin_token \o <<"n">> \o sep_token,
     <<"{">>, <<"}">> \o call_end_token,
     CallSection(<<"m">>, <<"1">>) \o eot_token}

MaxSessionFeeds == 2

Sessions == {1, 2}

\* ------------------------------------------------------------------------
\* The NVCF secrets loader of the telemetry module
\* ------------------------------------------------------------------------

\* a key that is not in a dict or in the environment
Absent == "absent"

PROD_CID == "PRODUCTION_KRATOS_CLI_SSA_CLIENT_ID"

PROD_CSEC == "PRODUCTION_KRATOS_CLI_SSA_CLIENT_SECRET"

GEN_CID == "KRATOS_CLI_SSA_CLIENT_ID"

GEN_CSEC == "KRATOS_CLI_SSA_CLIENT_SECRET"

CRED_FILE_KEY == "KRATOS_CLI_SSA_CREDENTIALS_FILE"

NVCF_DEFAULT_CRED_PATH == "/tmp/kratos_ssa.json"

\* a credentials file the operator configured
OperatorCredPath == "/etc/operator_ssa.json"

SecretKeys == {PROD_CID, PROD_CSEC, GEN_CID, GEN_CSEC}

EnvKeys == SecretKeys \cup {CRED_FILE_KEY}

CredPaths == {NVCF_DEFAULT_CRED_PATH, OperatorCredPath}

\* what a key of secrets.json holds: nothing, the empty string, a secret
SecretValues == {Absent, "", "s1", "s2"}

SecretsFiles == [SecretKeys -> SecretValues]

\* the environments a process is started in: each key unset or set by the
\* operator
OperatorEnvirons ==
    {e \in [EnvKeys -> {Absent, "op", OperatorCredPath}] :
        /\ \A k \in SecretKeys : e[k] \in {Absent, "op"}
        /\ e[CRED_FILE_KEY] \in {Absent, OperatorCredPath}}

\* the files before the loader runs: client_id and client_secret of the
\* operator's file, no file (the empty tuple) at the default path
OperatorCredFiles ==
    [p \in CredPaths |-> IF p = OperatorCredPath THEN <<"op", "op">> ELSE <<>>]

\* isinstance(value, str) and value
IsNonEmptyStr(value) == value \notin {Absent, ""}

\* a or b
PyOr(a, b) == IF IsNonEmptyStr(a) THEN a ELSE b

\* the module's secrets globals and what they act on, as one value
SecretsState(env, set_keys, created, files) ==
    [environ |-> env, NVCF_SET_KEYS |-> set_keys,
     NVCF_CREATED_CRED_FILE |-> created, cred_files |-> files]

\* _maybe_update_env whose force overrides whatever is set
maybe_update_env_force_overrides(st, key, value, force, only_if_absent) ==
    LET written == [st EXCEPT !.environ[key] = value,
                              !.NVCF_SET_KEYS = @ \cup {key}]
    IN  IF ~IsNonEmptyStr(value) THEN st
        ELSE IF only_if_absent
        THEN IF st.environ[key] # Absent THEN st ELSE written
        ELSE IF key \in st.NVCF_SET_KEYS \/ force
        THEN written
        ELSE st

\* _maybe_update_env(key, value, force=, only_if_absent=)
maybe_update_env(st, key, value, force, only_if_absent) ==
    LET written == [st EXCEPT !.environ[key] = value,
                              !.NVCF_SET_KEYS = @ \cup {key}]
    IN  IF ~IsNonEmptyStr(value) THEN st
        ELSE IF only_if_absent
        THEN IF st.environ[key] # Absent THEN st ELSE written
        ELSE IF key \in st.NVCF_SET_KEYS \/ (force /\ st.environ[key] = Absent)
        THEN written
        ELSE st

\* _write_credentials_file(path, client_id, client_secret); ok: the file
\* could be opened, else the exception is swallowed
write_credentials_file(st, path, client_id, client_secret, ok) ==
    IF ok THEN [st EXCEPT !.cred_files[path] = <<client_id, client_secret>>]
    ELSE st

\* _apply_nvcf_secrets(secrets, initial=)
apply_nvcf_secrets(st, secrets, initial, ok) ==
    LET prod_cid == secrets[PROD_CID]
        prod_csec == secrets[PROD_CSEC]
        gen_cid == secrets[GEN_CID]
        gen_csec == secrets[GEN_CSEC]
        cid == PyOr(prod_cid, gen_cid)
        csec == PyOr(prod_csec, gen_csec)
        s1 == maybe_update_env(st, PROD_CID, prod_cid, ~initial, initial)
        s2 == maybe_update_env(s1, PROD_CSEC, prod_csec, ~initial, initial)
        s3 == maybe_update_env(s2, GEN_CID, cid, ~initial, initial)
        s4 == maybe_update_env(s3, GEN_CSEC, csec, ~initial, initial)
    IN  IF ~(IsNonEmptyStr(cid) /\ IsNonEmptyStr(csec)) THEN s4
        ELSE IF initial
        THEN IF s4.environ[CRED_FILE_KEY] # Absent THEN s4
             ELSE [write_credentials_file(s4, NVCF_DEFAULT_CRED_PATH, cid, csec, ok)
                     EXCEPT !.environ[CRED_FILE_KEY] = NVCF_DEFAULT_CRED_PATH,
                            !.NVCF_SET_KEYS = @ \cup {CRED_FILE_KEY},
                            !.NVCF_CREATED_CRED_FILE = NVCF_DEFAULT_CRED_PATH]
        ELSE IF s4.NVCF_CREATED_CRED_FILE # Absent
        THEN write_credentials_file(s4, s4.NVCF_CREATED_CRED_FILE, cid, csec, ok)
        ELSE s4

\* ------------------------------------------------------------------------
\* The wait for the OTEL collector
\* ------------------------------------------------------------------------

\* value.strip().lower() of the values an environment variable is given here
StripLower(value) ==
    CASE value = " ON "  -> "on"
      [] value = "True"  -> "true"
      [] value = "YES\n" -> "yes"
      [] OTHER           -> value

\* _is_truthy(value); Absent is None
is_truthy(value) ==
    IF value = Absent THEN FALSE
    ELSE StripLower(value) \in {"1", "true", "yes", "on"}

\* os.getenv(key, default) on an environment given as a function
getenv(env, key, default) == IF env[key] = Absent THEN default ELSE env[key]

HEALTH_WAIT == "OTEL_HEALTH_CHECK_WAIT"

HEALTH_RETRIES == "OTEL_HEALTH_CHECK_RETRIES"

HEALTH_ENDPOINT == "OTEL_HEALTH_CHECK_ENDPOINT"

\* the default of OTEL_HEALTH_CHECK_RETRIES
DefaultHealthRetries == 12

\* the largest OTEL_HEALTH_CHECK_RETRIES an operator sets here
MaxRetriesEnv == 3

\* what OTEL_HEALTH_CHECK_WAIT is set to
HealthWaitValues == {Absent, "0", "1", " ON ", "True", "YES\n", "off", ""}

\* the ints OTEL_HEALTH_CHECK_RETRIES parses to
RetriesRange == (-1..MaxRetriesEnv) \cup {DefaultHealthRetries}

\* int(s) of the decimal string s
int(s) == CHOOSE n \in RetriesRange : ToString(n) = s

CollectorKeys == {HEALTH_WAIT, HEALTH_RETRIES, HEALTH_ENDPOINT}

\* the environments of the collector wait
CollectorEnvirons ==
    {[k \in CollectorKeys |->
         CASE k = HEALTH_WAIT -> w
           [] k = HEALTH_RETRIES -> r
           [] OTHER -> u] :
       w \in HealthWaitValues,
       r \in {Absent} \cup {ToString(n) : n \in -1..MaxRetriesEnv},
       u \in {Absent, "", "http://collector/health"}}

\* what one GET of the health endpoint can come to: the status code of the
\* response, an exception of requests.get, or requests cannot be imported
HealthOutcomes == {"200", "503", "exception", "no_requests"}

\* _check_collector_health() in the environment env when the GET, if it is
\* made, comes to outcome
check_collector_health(env, outcome) ==
    LET health_url == env[HEALTH_ENDPOINT]
    IN  IF health_url \in {Absent, ""} THEN TRUE
        ELSE IF outcome = "no_requests" THEN TRUE
        ELSE IF outcome = "exception" THEN FALSE
        ELSE outcome = "200"

\* ------------------------------------------------------------------------
\* The Prometheus to OTEL bridge: counters by deltas
\* ------------------------------------------------------------------------

\* the largest value a sample has here; a float of the source is a natural
MaxValue == 2

\* the most scrapes of a run
MaxScrapes == 3

SampleValues == 0..MaxValue

\* sample.name of the samples scraped, with the type of their family
SampleNames ==
    {"sglang:requests_total", "latency_count", "latency_sum",
     "latency_bucket", "wait_sum", "running"}

FamilyTypeOf(raw_name) ==
    CASE raw_name = "sglang:requests_total" -> "counter"
      [] raw_name \in {"latency_count", "latency_sum", "latency_bucket"}
             -> "histogram"
      [] raw_name = "wait_sum" -> "summary"
      [] OTHER -> "gauge"

\* raw_name.endswith(suffix), for the three suffixes tested
EndsWith(raw_name, suffix) ==
    CASE suffix = "_count"  -> raw_name = "latency_count"
      [] suffix = "_sum"    -> raw_name \in {"latency_sum", "wait_sum"}
      [] suffix = "_bucket" -> raw_name = "latency_bucket"
      [] OTHER -> FALSE

\* _sanitize_metric_name(name): name.replace(":", "_")
sanitize_metric_name(name) ==
    IF name = "sglang:requests_total" THEN "sglang_requests_total" ELSE name

\* tuple(sorted(labels.items())) of the labels scraped
SampleLabels == {<<>>, <<<<"model", "m">>>>}

Samples == [name : SampleNames, labels : SampleLabels, value : SampleValues]

\* d[k] = v
Put(d, k, v) == [x \in DOMAIN d \cup {k} |-> IF x = k THEN v ELSE d[x]]

\* d.get(k, default)
Get(d, k, default) == IF k \in DOMAIN d THEN d[k] ELSE default

\* the bridge's globals as one value; added: what each OTEL counter was
\* given by inst.add, in order, per attributes
BridgeState(counters, counter_prev, bucket_prev, added) ==
    [PROM_COUNTERS |-> counters, PROM_COUNTER_PREV |-> counter_prev,
     PROM_BUCKET_PREV |-> bucket_prev, otel_added |-> added]

\* _ensure_counter(name); create_ok: meter.create_counter did not raise
ensure_counter(st, name, create_ok) ==
    IF name \in DOMAIN st.PROM_COUNTERS THEN st
    ELSE [st EXCEPT !.PROM_COUNTERS =
              Put(@, name, IF create_ok THEN "counter" ELSE "None")]

\* _add_counter_delta(name, labels, value, prev_map); add_ok: inst.add did
\* not raise
add_counter_delta(st, name, labels, value, prev_map, add_ok) ==
    LET key == <<name, labels>>
        prev == Get(st[prev_map], key, 0)
        delta == IF value - prev < 0 THEN value ELSE value - prev
        st1 == [st EXCEPT ![prev_map] = Put(@, key, value)]
    IN  IF delta <= 0 THEN st1
        ELSE IF Get(st.PROM_COUNTERS, name, "None") = "None" THEN st1
        ELSE IF ~add_ok THEN st1
        ELSE [st1 EXCEPT !.otel_added =
                  Put(@, key, Append(Get(@, key, <<>>), delta))]

\* the body of the loop of _scrape_once for one sample of a family of type
\* ftype; a gauge goes to the gauge maps and leaves the counters alone
scrape_sample(st, ftype, sample, create_ok, add_ok) ==
    LET raw_name == sample.name
        name == sanitize_metric_name(raw_name)
        counted(prev_map) ==
            add_counter_delta(ensure_counter(st, name, create_ok), name,
                              sample.labels, sample.value, prev_map, add_ok)
    IN  IF ftype = "counter" THEN counted("PROM_COUNTER_PREV")
        ELSE IF ftype = "gauge" THEN st
        ELSE IF ftype = "histogram"
        THEN IF EndsWith(raw_name, "_count") THEN counted("PROM_COUNTER_PREV")
             ELSE IF EndsWith(raw_name, "_sum") THEN counted("PROM_COUNTER_PREV")
             ELSE IF EndsWith(raw_name, "_bucket") THEN counted("PROM_BUCKET_PREV")
             ELSE st
        ELSE IF ftype = "summary"
        THEN IF EndsWith(raw_name, "_count") \/ EndsWith(raw_name, "_sum")
             THEN counted("PROM_COUNTER_PREV")
             ELSE st
        ELSE st

\* ------------------------------------------------------------------------
\* The secrets file and its watcher
\* ------------------------------------------------------------------------

\* no file at NVCF_SECRETS_PATH
Missing == "missing"

\* the contents the secrets file is given: two JSON objects, a JSON array,
\* and text that is no JSON
FileVersions == {"A", "B", "array", "garbage"}

\* json.load of a version raises
JsonLoadRaises(version) == version = "garbage"

\* json.load(f) of the two objects
SecretsOf(version) ==
    [k \in SecretKeys |->
        IF version = "A" THEN (IF k \in {PROD_CID, PROD_CSEC} THEN "s1" ELSE Absent)
        ELSE "s2"]

\* secrets.get raises: the JSON value is no dict
ApplyRaises(version) == version = "array"

\* None, as a hash
NoHash == <<>>

\* _file_sha256(path) with the file holding version: the digest of the
\* bytes, None when the file cannot be read
file_sha256(version) ==
    IF version = Missing THEN NoHash ELSE <<"sha256", version>>

\* the most writes to the secrets file by its owner
MaxFileWrites == 2

\* the most polls of the watcher
MaxPolls == 3

\* ------------------------------------------------------------------------
\* The offload filter of the log pipeline
\*
\* A string of a log record is a sequence of tokens: a word, a %s of a
\* format string, a data URI with its payload, or the reference
\* "[offloaded:uri]" that replaces one.
\* ------------------------------------------------------------------------

Word(n) == [kind |-> "word", n |-> n]

Fmt == [kind |-> "%s", n |-> 0]

\* "data:image/png;base64," and the base64 text of payload p
DataUri(p) == [kind |-> "data", n |-> p]

\* f"[offloaded:{uri}]"
Offloaded(uri) == [kind |-> "offloaded", n |-> uri]

\* the payloads of the records logged here: 1 is small, 2 is large, the
\* base64 text of 3 has a wrong padding, 4 and up are large
SmallPayload == 1

BadPaddingPayload == 3

\* int(len(b64) * 3 / 4) of the base64 text of payload p
EstBytes(p) == IF p = SmallPayload THEN 1 ELSE 2

\* base64.b64decode(b64, validate=False) raises
B64DecodeRaises(p) == p = BadPaddingPayload

\* hashlib.sha256(b).hexdigest() of the bytes of payload p
Sha256Hex(p) == [sha256 |-> p]

\* len(_OFFLOAD_CACHE) above which an entry is evicted before an insertion
OFFLOAD_CACHE_MAX == 1024

\* a LogRecord: msg, args, and one str attribute given with extra=; the two
\* attributes the filter adds are 0 while they are not set
LogRecord(msg, args, image) ==
    [msg |-> msg, args |-> args, image |-> image,
     kratos_bulk_upload_id |-> 0, kratos_uri |-> 0]

\* the number of %s in a format string
CountFmt(s) == Cardinality({i \in 1..Len(s) : s[i] = Fmt})

\* msg % args
RECURSIVE PercentFormat(_, _)
PercentFormat(s, args) ==
    IF s = <<>> THEN <<>>
    ELSE IF Head(s) = Fmt
    THEN Head(args) \o PercentFormat(Tail(s), Tail(args))
    ELSE <<Head(s)>> \o PercentFormat(Tail(s), args)

\* record.getMessage(): msg % args when there are args; raises when the
\* args do not fit the format string
getMessage(record) ==
    IF record.args = <<>> THEN [raises |-> FALSE, text |-> record.msg]
    ELSE IF CountFmt(record.msg) # Len(record.args)
    THEN [raises |-> TRUE, text |-> <<>>]
    ELSE [raises |-> FALSE, text |-> PercentFormat(record.msg, record.args)]

\* _extract_data_uris(text): the payloads of the data URIs of text, in order
extract_data_uris(s) ==
    LET uris == SelectSeq(s, LAMBDA t : t.kind = "data")
    IN  [i \in 1..Len(uris) |-> uris[i].n]

\* targets: the message, then the str attributes of record.__dict__ in
\* their order
Targets(record) ==
    <<[key |-> "__message__", text |-> getMessage(record).text],
      [key |-> "msg", text |-> record.msg],
      [key |-> "image", text |-> record.image]>>

\* the items of one target
ItemsOfTarget(target) ==
    LET found == extract_data_uris(target.text)
    IN  [i \in 1..Len(found) |->
            [key |-> target.key, text |-> target.text, payload |-> found[i],
             est_bytes |-> EstBytes(found[i])]]

\* items, before the sort
RECURSIVE ItemsOfTargets(_)
ItemsOfTargets(targets) ==
    IF targets = <<>> THEN <<>>
    ELSE ItemsOfTarget(Head(targets)) \o ItemsOfTargets(Tail(targets))

\* sum of est_bytes
RECURSIVE TotalEstBytes(_)
TotalEstBytes(its) ==
    IF its = <<>> THEN 0 ELSE Head(its).est_bytes + TotalEstBytes(Tail(its))

\* items.sort(key=lambda x: x[3], reverse=True): stable, largest first
RECURSIVE SortByEstBytes(_)
SortByEstBytes(its) ==
    IF its = <<>> THEN <<>>
    ELSE LET largest == CHOOSE e \in {its[i].est_bytes : i \in 1..Len(its)} :
                            \A i \in 1..Len(its) : its[i].est_bytes <= e
         IN  SelectSeq(its, LAMBDA x : x.est_bytes = largest)
                 \o SortByEstBytes(SelectSeq(its, LAMBDA x : x.est_bytes # largest))

\* _OFFLOAD_CACHE.get(digest): the uri, 0 for None; the cache is the
\* sequence of its entries in the order of insertion
CacheGet(cache, digest) ==
    IF \E i \in 1..Len(cache) : cache[i].digest = digest
    THEN cache[CHOOSE i \in 1..Len(cache) : cache[i].digest = digest].uri
    ELSE 0

\* the insertion into the cache that never evicts
CacheInsert_never_evicts(cache, digest, uri) ==
    Append(cache, [digest |-> digest, uri |-> uri])

\* the insertion into the cache (lines 473-478), for a digest that is not
\* in it: the oldest entry is popped first when there are more than 1024
CacheInsert(cache, digest, uri) ==
    LET room == IF Len(cache) > OFFLOAD_CACHE_MAX THEN Tail(cache) ELSE cache
    IN  Append(room, [digest |-> digest, uri |-> uri])

\* base.replace(m["full_match"], replacement)
ReplaceUri(base, payload, uri) ==
    [i \in 1..Len(base) |->
        IF base[i] = DataUri(payload) THEN Offloaded(uri) ELSE base[i]]

\* updated_texts.get(key, text)
UpdatedGet(updated, key, text) ==
    IF \E i \in 1..Len(updated) : updated[i].key = key
    THEN updated[CHOOSE i \in 1..Len(updated) : updated[i].key = key].text
    ELSE text

\* updated_texts[key] = new_text, the keys kept in the order of insertion
UpdatedPut(updated, key, new_text) ==
    IF \E i \in 1..Len(updated) : updated[i].key = key
    THEN [i \in 1..Len(updated) |->
             IF updated[i].key = key THEN [key |-> key, text |-> new_text]
             ELSE updated[i]]
    ELSE Append(updated, [key |-> key, text |-> new_text])

\* the loop over the sorted items (lines 458-488), from item i on; acc holds
\* remaining, updated_texts, the cache, the payloads uploaded, the record
\* and the uploads tried; oks: which of the uploads tried return a uri
RECURSIVE OffloadItems(_, _, _, _, _)
OffloadItems(its, i, acc, threshold_bytes, oks) ==
    IF i > Len(its) \/ acc.remaining < threshold_bytes THEN acc
    ELSE
      LET item == its[i]
          digest == Sha256Hex(item.payload)
          cached == CacheGet(acc.cache, digest)
          tried == acc.tried + 1
          uploaded == cached = 0 /\ oks[tried]
          bulk_id == Len(acc.uploads) + 1
          uri == IF cached # 0 THEN cached
                 ELSE IF uploaded THEN bulk_id
                 ELSE 0
          acc1 == IF cached # 0 THEN acc
                  ELSE IF uploaded
                  THEN [acc EXCEPT
                          !.tried = tried,
                          !.uploads = Append(@, item.payload),
                          !.cache = CacheInsert(@, digest, uri)]
                  ELSE [acc EXCEPT !.tried = tried]
          acc2 == IF uri = 0 THEN acc1
                  ELSE [acc1 EXCEPT
                          !.updated =
                              UpdatedPut(@, item.key,
                                  ReplaceUri(UpdatedGet(@, item.key, item.text),
                                             item.payload, uri)),
                          !.remaining = @ - item.est_bytes,
                          !.record.kratos_bulk_upload_id =
                              IF uploaded THEN bulk_id ELSE @,
                          !.record.kratos_uri = uri]
      IN  IF B64DecodeRaises(item.payload)
          THEN OffloadItems(its, i + 1, acc, threshold_bytes, oks)
          ELSE OffloadItems(its, i + 1, acc2, threshold_bytes, oks)

\* the setters called with the updated texts (lines 490-493)
RECURSIVE ApplySetters(_, _)
ApplySetters(record, updated) ==
    IF updated = <<>> THEN record
    ELSE LET u == Head(updated)
             set == IF u.key \in {"__message__", "msg"}
                    THEN [record EXCEPT !.msg = u.text]
                    ELSE [record EXCEPT !.image = u.text]
         IN  ApplySetters(set, Tail(updated))

\* _KratosOffloadFilter.filter(record): the value returned, the record and
\* the cache after the call, and the payloads uploaded so far
filter(self, cache, uploads, record, oks) ==
    LET unchanged == [ret |-> TRUE, record |-> record, cache |-> cache,
                      uploads |-> uploads]
        its == ItemsOfTargets(Targets(record))
        total_est_bytes == TotalEstBytes(its)
        acc == OffloadItems(SortByEstBytes(its), 1,
                            [remaining |-> total_est_bytes, updated |-> <<>>,
                             cache |-> cache, uploads |-> uploads,
                             record |-> record, tried |-> 0],
                            self.threshold_bytes, oks)
    IN  IF ~self.enabled THEN unchanged
        ELSE IF getMessage(record).raises THEN unchanged
        ELSE IF total_est_bytes < self.threshold_bytes \/ its = <<>>
        THEN unchanged
        ELSE [ret |-> TRUE, record |-> ApplySetters(acc.record, acc.updated),
              cache |-> acc.cache, uploads |-> acc.uploads]

\* the most payloads uploaded before the log pipeline is left alone
MaxUploads == 2

\* the same for the run that fills the cache
MaxCacheUploads == 1027

\* self.threshold_bytes of the filters built here
ThresholdBytes == {1, 2, 3, 5}

Filters == [threshold_bytes : ThresholdBytes, enabled : BOOLEAN]

\* the records logged: a plain message, data URIs in the message, in an
\* argument of the message and in the attribute
Messages ==
    {<<Word(1)>>, <<Word(1), DataUri(2)>>, <<DataUri(SmallPayload), DataUri(2)>>,
     <<Word(1), Fmt>>}

Images ==
    {<<>>, <<DataUri(SmallPayload)>>, <<DataUri(2), Word(2), DataUri(2)>>,
     <<DataUri(BadPaddingPayload)>>}

LogRecords ==
    {LogRecord(msg, args, image) :
        msg \in Messages,
        args \in {<<>>, <<<<Word(2)>>>>, <<<<DataUri(2)>>>>},
        image \in Images}

\* a record never logged
NoRecord == LogRecord(<<>>, <<>>, <<>>)

\* ------------------------------------------------------------------------
\* State
\* ------------------------------------------------------------------------

VARIABLES
    text,                    \* the complete text of the turn
    pos,                     \* how much of it has been fed
    buffer,                  \* self._buffer
    current_tool_id,         \* self.current_tool_id
    current_tool_name_sent,  \* self.current_tool_name_sent
    last_arguments,          \* self._last_arguments
    prev_tool_call_arr,      \* self.prev_tool_call_arr
    streamed_args_for_tool,  \* self.streamed_args_for_tool
    result,                  \* what the last invocation returned
    normal_out,              \* the normal_text deltas returned so far, concatenated
    items,                   \* the ToolCallItems returned so far, in order
    feeds,                   \* the number of invocations so far
    parsed,                  \* what detect_and_parse returned, once called
    sessions                 \* two detector instances of one server process

VARIABLES
    environ,                 \* os.environ, the keys of EnvKeys
    NVCF_SET_KEYS,           \* _NVCF_SET_KEYS
    NVCF_CREATED_CRED_FILE,  \* _NVCF_CREATED_CRED_FILE
    cred_files,              \* the contents of the credentials files
    operator_environ,        \* the environment the process was started in
    GLOBAL_METER,            \* _GLOBAL_METER is not None
    PROM_BRIDGE_THREAD,      \* _PROM_BRIDGE_THREAD: 0 for None, else its creator
    NVCF_WATCH_THREAD,       \* _NVCF_WATCH_THREAD: 0 for None, else its creator
    bridge_threads,          \* sglang-prom-bridge threads started so far
    watcher_threads,         \* sglang-nvcf-secrets threads started so far
    pc,                      \* where each caller is in the function it called
    start_calls              \* calls of the two start functions so far

VARIABLES
    collector_environ,       \* os.environ, the OTEL_HEALTH_CHECK_* keys
    wait_pc,                 \* where _maybe_wait_for_collector is
    max_retries,             \* its local max_retries
    retries,                 \* its local retries
    wait_trace               \* the health checks ("ok", "fail") and sleeps so far

VARIABLES
    PROM_COUNTERS,           \* _PROM_COUNTERS: the instrument of a name, or "None"
    PROM_COUNTER_PREV,       \* _PROM_COUNTER_PREV
    PROM_BUCKET_PREV,        \* _PROM_BUCKET_PREV
    otel_added,              \* the amounts given to inst.add, per name and labels
    scraped                  \* the values scraped, per sample name and labels

VARIABLES
    secrets_file,            \* what the file at NVCF_SECRETS_PATH holds
    NVCF_LAST_HASH,          \* _NVCF_LAST_HASH
    watch_pc,                \* where the loader and then the watcher's loop are
    loaded_version,          \* what json.load returned to the loader
    new_hash,                \* new_hash of the loop
    applied,                 \* the versions given to _apply_nvcf_secrets, in order
    file_writes,             \* writes to the secrets file so far
    polls                    \* polls of the watcher so far

VARIABLES
    OFFLOAD_CACHE,           \* _OFFLOAD_CACHE, its entries in the order of insertion
    uploads,                 \* the payloads uploaded so far, in order
    offload_filter,          \* the _KratosOffloadFilter of the handler
    record_in,               \* the record last given to filter
    record_out,              \* the same record after filter returned
    filter_ret               \* what filter returned

\* the variables of the telemetry module
secretsVars ==
    <<environ, NVCF_SET_KEYS, NVCF_CREATED_CRED_FILE, cred_files,
      operator_environ>>

threadVars ==
    <<GLOBAL_METER, PROM_BRIDGE_THREAD, NVCF_WATCH_THREAD, bridge_threads,
      watcher_threads, pc, start_calls>>

collectorVars ==
    <<collector_environ, wait_pc, max_retries, retries, wait_trace>>

\* the variables of the collector wait, the metrics bridge and the log filter
counterVars ==
    <<PROM_COUNTERS, PROM_COUNTER_PREV, PROM_BUCKET_PREV, otel_added, scraped>>

watchVars ==
    <<secrets_file, NVCF_LAST_HASH, watch_pc, loaded_version, new_hash,
      applied, file_writes, polls>>

offloadVars ==
    <<OFFLOAD_CACHE, uploads, offload_filter, record_in, record_out,
      filter_ret>>

pipelineVars == <<collectorVars, counterVars, watchVars, offloadVars>>

otelVars == <<secretsVars, threadVars, pipelineVars>>

\* the variables of the detector and of the two sessions
detectorVars ==
    <<text, pos, buffer, current_tool_id, current_tool_name_sent,
      last_arguments, prev_tool_call_arr, streamed_args_for_tool, result,
      normal_out, items, feeds, parsed, sessions>>

vars == <<detectorVars, otelVars>>

\* the threads that call into the telemetry module
Callers == {1, 2}

\* the most calls of start_prom_to_otel_bridge and
\* _start_nvcf_secrets_watcher together
MaxStartCalls == 3

\* the telemetry module after import, in a process started with the
\* environment e
SecretsLoaded(e) ==
    /\ environ = e
    /\ NVCF_SET_KEYS = {}
    /\ NVCF_CREATED_CRED_FILE = Absent
    /\ cred_files = OperatorCredFiles
    /\ operator_environ = e

ThreadsLoaded ==
    /\ GLOBAL_METER = FALSE
    /\ PROM_BRIDGE_THREAD = 0
    /\ NVCF_WATCH_THREAD = 0
    /\ bridge_threads = 0
    /\ watcher_threads = 0
    /\ pc = [c \in Callers |-> "idle"]
    /\ start_calls = 0

\* _maybe_wait_for_collector has not been called, in a process started with
\* the environment e
CollectorLoaded(e) ==
    /\ collector_environ = e
    /\ wait_pc = "idle"
    /\ max_retries = 0
    /\ retries = 0
    /\ wait_trace = <<>>

\* the bridge has not scraped
CountersLoaded ==
    /\ PROM_COUNTERS = <<>>
    /\ PROM_COUNTER_PREV = <<>>
    /\ PROM_BUCKET_PREV = <<>>
    /\ otel_added = <<>>
    /\ scraped = <<>>

\* the secrets are not loaded yet, the file holding version
WatchLoaded(version) ==
    /\ secrets_file = version
    /\ NVCF_LAST_HASH = NoHash
    /\ watch_pc = "load"
    /\ loaded_version = Missing
    /\ new_hash = NoHash
    /\ applied = <<>>
    /\ file_writes = 0
    /\ polls = 0

\* no record has been logged; f is the filter _wrap_with_queue built
OffloadLoaded(f) ==
    /\ OFFLOAD_CACHE = <<>>
    /\ uploads = <<>>
    /\ offload_filter = f
    /\ record_in = NoRecord
    /\ record_out = NoRecord
    /\ filter_ret = TRUE

\* KRATOS_BULKUPLOAD_ENABLE is not set: the filter is disabled
DefaultFilter == [threshold_bytes |-> 5, enabled |-> FALSE]

PipelineLoaded ==
    /\ CollectorLoaded([k \in CollectorKeys |-> Absent])
    /\ CountersLoaded
    /\ WatchLoaded(Missing)
    /\ OffloadLoaded(DefaultFilter)

\* the telemetry module is imported and left alone
OtelLoaded ==
    /\ SecretsLoaded([k \in EnvKeys |-> Absent])
    /\ ThreadsLoaded
    /\ PipelineLoaded

\* no invocation yet
NoResult == [normal_text |-> None, calls |-> <<>>]

\* the detector as one value
Self ==
    [buffer |-> buffer,
     current_tool_id |-> current_tool_id,
     current_tool_name_sent |-> current_tool_name_sent,
     last_arguments |-> last_arguments,
     prev_tool_call_arr |-> prev_tool_call_arr,
     streamed_args_for_tool |-> streamed_args_for_tool]

\* a session: the instance, the fragments it was fed and what it returned
NewSession == [self |-> NewDetector, fed |-> <<>>, results |-> <<>>]

Init ==
    /\ text \in Texts
    /\ pos = 0
    /\ buffer = NewDetector.buffer
    /\ current_tool_id = NewDetector.current_tool_id
    /\ current_tool_name_sent = NewDetector.current_tool_name_sent
    /\ last_arguments = NewDetector.last_arguments
    /\ prev_tool_call_arr = NewDetector.prev_tool_call_arr
    /\ streamed_args_for_tool = NewDetector.streamed_args_for_tool
    /\ result = NoResult
    /\ normal_out = <<>>
    /\ items = <<>>
    /\ feeds = 0
    /\ parsed = NoResult
    /\ sessions = [d \in Sessions |-> NewSession]
    /\ OtelLoaded

\* one invocation of parse_streaming_increment with the next n characters of
\* the text (n = 0: an empty fragment)
ParseStreamingIncrement(n) ==
    LET new_text == Slice(text, pos + 1, pos + n)
        out == parse_streaming_increment(Self, new_text)
    IN  /\ parsed = NoResult
        /\ feeds < MaxFeeds
        /\ feeds' = feeds + 1
        /\ pos' = pos + n
        /\ buffer' = out.self.buffer
        /\ current_tool_id' = out.self.current_tool_id
        /\ current_tool_name_sent' = out.self.current_tool_name_sent
        /\ last_arguments' = out.self.last_arguments
        /\ prev_tool_call_arr' = out.self.prev_tool_call_arr
        /\ streamed_args_for_tool' = out.self.streamed_args_for_tool
        /\ result' = out.result
        /\ normal_out' = normal_out \o out.result.normal_text
        /\ items' = items \o out.result.calls
        /\ UNCHANGED <<text, parsed, sessions, otelVars>>

\* one invocation of detect_and_parse on the complete text
DetectAndParse ==
    /\ feeds = 0
    /\ parsed = NoResult
    /\ parsed' = detect_and_parse(text)
    /\ UNCHANGED <<text, pos, buffer, current_tool_id, current_tool_name_sent,
                   last_arguments, prev_tool_call_arr, streamed_args_for_tool,
                   result, normal_out, items, feeds, sessions, otelVars>>

\* a turn is parsed either incrementally, the text arriving in any
\* fragmentation, or in one shot
Next ==
    \/ \E n \in 0..(Len(text) - pos) : ParseStreamingIncrement(n)
    \/ DetectAndParse

Spec == Init /\ [][Next]_vars

\* two instances, each with its own turn: no text is drawn for the single
\* detector
InitSessions ==
    /\ text = <<>>
    /\ pos = 0
    /\ buffer = NewDetector.buffer
    /\ current_tool_id = NewDetector.current_tool_id
    /\ current_tool_name_sent = NewDetector.current_tool_name_sent
    /\ last_arguments = NewDetector.last_arguments
    /\ prev_tool_call_arr = NewDetector.prev_tool_call_arr
    /\ streamed_args_for_tool = NewDetector.streamed_args_for_tool
    /\ result = NoResult
    /\ normal_out = <<>>
    /\ items = <<>>
    /\ feeds = 0
    /\ parsed = NoResult
    /\ sessions = [d \in Sessions |-> NewSession]
    /\ OtelLoaded

\* SessionIncrement with _buffer an attribute of the class: the write goes
\* to every instance
SessionIncrement_shared_buffer(d, new_text) ==
    LET out == parse_streaming_increment(sessions[d].self, new_text)
    IN  /\ Len(sessions[d].fed) < MaxSessionFeeds
        /\ sessions' =
               [e \in Sessions |->
                   IF e = d
                   THEN [self |-> out.self,
                         fed |-> Append(sessions[d].fed, new_text),
                         results |-> Append(sessions[d].results, out.result)]
                   ELSE [sessions[e] EXCEPT !.self.buffer = out.self.buffer]]
        /\ UNCHANGED <<text, pos, buffer, current_tool_id,
                       current_tool_name_sent, last_arguments,
                       prev_tool_call_arr, streamed_args_for_tool, result,
                       normal_out, items, feeds, parsed, otelVars>>

\* one invocation of parse_streaming_increment on instance d: every read and
\* write of the method goes through self
SessionIncrement(d, new_text) ==
    LET out == parse_streaming_increment(sessions[d].self, new_text)
    IN  /\ Len(sessions[d].fed) < MaxSessionFeeds
        /\ sessions' =
               [sessions EXCEPT
                   ![d] = [self |-> out.self,
                           fed |-> Append(sessions[d].fed, new_text),
                           results |-> Append(sessions[d].results, out.result)]]
        /\ UNCHANGED <<text, pos, buffer, current_tool_id,
                       current_tool_name_sent, last_arguments,
                       prev_tool_call_arr, streamed_args_for_tool, result,
                       normal_out, items, feeds, parsed, otelVars>>

NextSessions ==
    \E d \in Sessions, f \in SessionFragments : SessionIncrement(d, f)

SpecSessions == InitSessions /\ [][NextSessions]_vars

\* no detector is in use
DetectorsIdle ==
    /\ text = <<>>
    /\ pos = 0
    /\ buffer = NewDetector.buffer
    /\ current_tool_id = NewDetector.current_tool_id
    /\ current_tool_name_sent = NewDetector.current_tool_name_sent
    /\ last_arguments = NewDetector.last_arguments
    /\ prev_tool_call_arr = NewDetector.prev_tool_call_arr
    /\ streamed_args_for_tool = NewDetector.streamed_args_for_tool
    /\ result = NoResult
    /\ normal_out = <<>>
    /\ items = <<>>
    /\ feeds = 0
    /\ parsed = NoResult
    /\ sessions = [d \in Sessions |-> NewSession]

\* ------------------------------------------------------------------------
\* The secrets loader: the first load and the reloads of the watcher
\* ------------------------------------------------------------------------

InitSecrets ==
    /\ DetectorsIdle
    /\ ThreadsLoaded
    /\ PipelineLoaded
    /\ \E e \in OperatorEnvirons : SecretsLoaded(e)

\* the secrets globals as one value
Secrets ==
    SecretsState(environ, NVCF_SET_KEYS, NVCF_CREATED_CRED_FILE, cred_files)

\* the module's globals after a call that left them as st
SecretsBecome(st) ==
    /\ environ' = st.environ
    /\ NVCF_SET_KEYS' = st.NVCF_SET_KEYS
    /\ NVCF_CREATED_CRED_FILE' = st.NVCF_CREATED_CRED_FILE
    /\ cred_files' = st.cred_files
    /\ UNCHANGED <<operator_environ, detectorVars, threadVars, pipelineVars>>

\* _load_nvcf_secrets_to_env() finding the secrets file with contents
\* secrets
LoadNvcfSecretsToEnv(secrets, ok) ==
    SecretsBecome(apply_nvcf_secrets(Secrets, secrets, TRUE, ok))

\* one round of the watcher's loop that finds the secrets file changed to
\* secrets
ReloadNvcfSecrets(secrets, ok) ==
    SecretsBecome(apply_nvcf_secrets(Secrets, secrets, FALSE, ok))

NextSecrets ==
    \/ \E secrets \in SecretsFiles, ok \in BOOLEAN :
           LoadNvcfSecretsToEnv(secrets, ok)
    \/ \E secrets \in SecretsFiles, ok \in BOOLEAN :
           ReloadNvcfSecrets(secrets, ok)

SpecSecrets == InitSecrets /\ [][NextSecrets]_vars

\* ------------------------------------------------------------------------
\* The two background threads: calls of the start functions from the
\* threads of Callers, interleaved between the test of the global and its
\* assignment
\* ------------------------------------------------------------------------

InitThreads ==
    /\ DetectorsIdle
    /\ SecretsLoaded([k \in EnvKeys |-> Absent])
    /\ ThreadsLoaded
    /\ PipelineLoaded

\* the setup publishes the meter (_GLOBAL_METER = meter)
SetGlobalMeter ==
    /\ ~GLOBAL_METER
    /\ GLOBAL_METER' = TRUE
    /\ UNCHANGED <<PROM_BRIDGE_THREAD, NVCF_WATCH_THREAD, bridge_threads,
                   watcher_threads, pc, start_calls, secretsVars, detectorVars,
                   pipelineVars>>

\* start_prom_to_otel_bridge, up to the definitions of the helpers: return
\* if the thread global is set or there is no meter
BridgeCheck(c) ==
    /\ pc[c] = "idle"
    /\ start_calls < MaxStartCalls
    /\ start_calls' = start_calls + 1
    /\ pc' = [pc EXCEPT ![c] =
                 IF PROM_BRIDGE_THREAD # 0 \/ ~GLOBAL_METER THEN "idle"
                 ELSE "bridge_checked"]
    /\ UNCHANGED <<GLOBAL_METER, PROM_BRIDGE_THREAD, NVCF_WATCH_THREAD,
                   bridge_threads, watcher_threads, secretsVars, detectorVars,
                   pipelineVars>>

\* start_prom_to_otel_bridge, its last two statements: the thread is
\* created, assigned to the global and started; ok: start() did not raise
BridgeStart(c, ok) ==
    /\ pc[c] = "bridge_checked"
    /\ PROM_BRIDGE_THREAD' = c
    /\ bridge_threads' = IF ok THEN bridge_threads + 1 ELSE bridge_threads
    /\ pc' = [pc EXCEPT ![c] = "idle"]
    /\ UNCHANGED <<GLOBAL_METER, NVCF_WATCH_THREAD, watcher_threads,
                   start_calls, secretsVars, detectorVars,
                   pipelineVars>>

\* _start_nvcf_secrets_watcher, its two tests: return if the thread global
\* is set or NVCF_SECRETS_RELOAD_ENABLE is not truthy
WatcherCheck(c, enabled) ==
    /\ pc[c] = "idle"
    /\ start_calls < MaxStartCalls
    /\ start_calls' = start_calls + 1
    /\ pc' = [pc EXCEPT ![c] =
                 IF NVCF_WATCH_THREAD # 0 \/ ~enabled THEN "idle"
                 ELSE "watcher_checked"]
    /\ UNCHANGED <<GLOBAL_METER, PROM_BRIDGE_THREAD, NVCF_WATCH_THREAD,
                   bridge_threads, watcher_threads, secretsVars, detectorVars,
                   pipelineVars>>

\* _start_nvcf_secrets_watcher: the thread is created and assigned to the
\* global
WatcherAssign(c) ==
    /\ pc[c] = "watcher_checked"
    /\ NVCF_WATCH_THREAD' = c
    /\ pc' = [pc EXCEPT ![c] = "watcher_assigned"]
    /\ UNCHANGED <<GLOBAL_METER, PROM_BRIDGE_THREAD, bridge_threads,
                   watcher_threads, start_calls, secretsVars, detectorVars,
                   pipelineVars>>

\* _start_nvcf_secrets_watcher: t.start(), and the global set back to None
\* when it raises
WatcherStart(c, ok) ==
    /\ pc[c] = "watcher_assigned"
    /\ watcher_threads' = IF ok THEN watcher_threads + 1 ELSE watcher_threads
    /\ NVCF_WATCH_THREAD' = IF ok THEN NVCF_WATCH_THREAD ELSE 0
    /\ pc' = [pc EXCEPT ![c] = "idle"]
    /\ UNCHANGED <<GLOBAL_METER, PROM_BRIDGE_THREAD, bridge_threads,
                   start_calls, secretsVars, detectorVars,
                   pipelineVars>>

NextThreads ==
    \/ SetGlobalMeter
    \/ \E c \in Callers : BridgeCheck(c)
    \/ \E c \in Callers, ok \in BOOLEAN : BridgeStart(c, ok)
    \/ \E c \in Callers, enabled \in BOOLEAN : WatcherCheck(c, enabled)
    \/ \E c \in Callers : WatcherAssign(c)
    \/ \E c \in Callers, ok \in BOOLEAN : WatcherStart(c, ok)

SpecThreads == InitThreads /\ [][NextThreads]_vars

\* ------------------------------------------------------------------------
\* The collector wait: one call of _maybe_wait_for_collector, statement by
\* statement
\* ------------------------------------------------------------------------

InitCollector ==
    /\ DetectorsIdle
    /\ SecretsLoaded([k \in EnvKeys |-> Absent])
    /\ ThreadsLoaded
    /\ CountersLoaded
    /\ WatchLoaded(Missing)
    /\ OffloadLoaded(DefaultFilter)
    /\ \E e \in CollectorEnvirons : CollectorLoaded(e)

\* the call, up to the loop: return if OTEL_HEALTH_CHECK_WAIT is not truthy,
\* else read max_retries and set retries to 0
MaybeWaitForCollector ==
    /\ wait_pc = "idle"
    /\ IF ~is_truthy(getenv(collector_environ, HEALTH_WAIT, "0"))
       THEN /\ wait_pc' = "returned"
            /\ UNCHANGED max_retries
       ELSE /\ wait_pc' = "while"
            /\ max_retries' =
                   int(getenv(collector_environ, HEALTH_RETRIES,
                              ToString(DefaultHealthRetries)))
    /\ retries' = 0
    /\ UNCHANGED <<collector_environ, wait_trace, detectorVars, secretsVars,
                   threadVars,
                   counterVars, watchVars,
                   offloadVars>>

\* while retries <= max_retries
WhileRetries ==
    /\ wait_pc = "while"
    /\ wait_pc' = IF retries <= max_retries THEN "check" ELSE "returned"
    /\ UNCHANGED <<collector_environ, max_retries, retries, wait_trace,
                   detectorVars, secretsVars, threadVars,
                   counterVars, watchVars,
                   offloadVars>>

\* CheckCollectorHealth without the return after the last retry
CheckCollectorHealth_sleeps_after_last(outcome) ==
    /\ wait_pc = "check"
    /\ IF check_collector_health(collector_environ, outcome)
       THEN /\ wait_trace' = Append(wait_trace, "ok")
            /\ wait_pc' = "returned"
            /\ UNCHANGED retries
       ELSE /\ wait_trace' = Append(wait_trace, "fail")
            /\ retries' = retries + 1
            /\ wait_pc' = "sleep"
    /\ UNCHANGED <<collector_environ, max_retries, detectorVars, secretsVars,
                   threadVars,
                   counterVars, watchVars,
                   offloadVars>>

\* the body up to the sleep: return if the collector is healthy, else count
\* the retry and return when the retries are used up
CheckCollectorHealth(outcome) ==
    /\ wait_pc = "check"
    /\ IF check_collector_health(collector_environ, outcome)
       THEN /\ wait_trace' = Append(wait_trace, "ok")
            /\ wait_pc' = "returned"
            /\ UNCHANGED retries
       ELSE /\ wait_trace' = Append(wait_trace, "fail")
            /\ retries' = retries + 1
            /\ wait_pc' = IF retries + 1 > max_retries THEN "returned"
                          ELSE "sleep"
    /\ UNCHANGED <<collector_environ, max_retries, detectorVars, secretsVars,
                   threadVars,
                   counterVars, watchVars,
                   offloadVars>>

\* time.sleep(backoff_s)
SleepBackoff ==
    /\ wait_pc = "sleep"
    /\ wait_trace' = Append(wait_trace, "sleep")
    /\ wait_pc' = "while"
    /\ UNCHANGED <<collector_environ, max_retries, retries, detectorVars,
                   secretsVars, threadVars,
                   counterVars, watchVars,
                   offloadVars>>

NextCollector ==
    \/ MaybeWaitForCollector
    \/ WhileRetries
    \/ \E outcome \in HealthOutcomes : CheckCollectorHealth(outcome)
    \/ SleepBackoff

SpecCollector == InitCollector /\ [][NextCollector]_vars

\* the thread that called _maybe_wait_for_collector keeps running: the GET
\* has a timeout and the sleep is finite
SpecCollectorFair == SpecCollector /\ WF_vars(NextCollector)

\* ------------------------------------------------------------------------
\* The bridge thread: the scrapes of _run
\* ------------------------------------------------------------------------

InitBridge ==
    /\ DetectorsIdle
    /\ SecretsLoaded([k \in EnvKeys |-> Absent])
    /\ ThreadsLoaded
    /\ PipelineLoaded

\* the bridge's globals as one value
Bridge ==
    BridgeState(PROM_COUNTERS, PROM_COUNTER_PREV, PROM_BUCKET_PREV, otel_added)

\* the scrapes made so far
Scrapes ==
    LET RECURSIVE Total(_)
        Total(K) == IF K = {} THEN 0
                    ELSE LET k == CHOOSE x \in K : TRUE
                         IN  Len(scraped[k]) + Total(K \ {k})
    IN  Total(DOMAIN scraped)

\* _scrape_once() when the text scraped holds the one sample; url_ok: the
\* text could be fetched, else the scrape is given up
ScrapeOnce(url_ok, sample, create_ok, add_ok) ==
    LET st == scrape_sample(Bridge, FamilyTypeOf(sample.name), sample,
                            create_ok, add_ok)
        series == <<sample.name, sample.labels>>
    IN  /\ Scrapes < MaxScrapes
        /\ IF url_ok
           THEN /\ PROM_COUNTERS' = st.PROM_COUNTERS
                /\ PROM_COUNTER_PREV' = st.PROM_COUNTER_PREV
                /\ PROM_BUCKET_PREV' = st.PROM_BUCKET_PREV
                /\ otel_added' = st.otel_added
                /\ scraped' =
                       Put(scraped, series,
                           Append(Get(scraped, series, <<>>), sample.value))
           ELSE UNCHANGED counterVars
        /\ UNCHANGED <<detectorVars, secretsVars, threadVars, collectorVars,
                       watchVars, offloadVars>>

NextBridge ==
    \E url_ok \in BOOLEAN, sample \in Samples, create_ok \in BOOLEAN,
       add_ok \in BOOLEAN :
        ScrapeOnce(url_ok, sample, create_ok, add_ok)

SpecBridge == InitBridge /\ [][NextBridge]_vars

\* ------------------------------------------------------------------------
\* The secrets watcher: the load at setup, then the polls of _loop, while
\* the owner of the secrets file rewrites it
\* ------------------------------------------------------------------------

InitWatcher ==
    /\ DetectorsIdle
    /\ SecretsLoaded([k \in EnvKeys |-> Absent])
    /\ ThreadsLoaded
    /\ CollectorLoaded([k \in CollectorKeys |-> Absent])
    /\ CountersLoaded
    /\ OffloadLoaded(DefaultFilter)
    /\ \E version \in FileVersions \cup {Missing} : WatchLoaded(version)

\* the secrets globals after _apply_nvcf_secrets left them as st
SecretsApplied(st) ==
    /\ environ' = st.environ
    /\ NVCF_SET_KEYS' = st.NVCF_SET_KEYS
    /\ NVCF_CREATED_CRED_FILE' = st.NVCF_CREATED_CRED_FILE
    /\ cred_files' = st.cred_files
    /\ UNCHANGED operator_environ

\* the owner of the secrets file writes or removes it
FileWritten(version) ==
    /\ file_writes < MaxFileWrites
    /\ version # secrets_file
    /\ file_writes' = file_writes + 1
    /\ secrets_file' = version
    /\ UNCHANGED <<NVCF_LAST_HASH, watch_pc, loaded_version, new_hash,
                   applied, polls, detectorVars, secretsVars, threadVars,
                   collectorVars, counterVars,
                   offloadVars>>

\* _load_nvcf_secrets_to_env(), up to json.load: return if there is no file
\* or it cannot be read (read_ok) or parsed
LoadOpen(read_ok) ==
    /\ watch_pc = "load"
    /\ IF secrets_file = Missing \/ ~read_ok \/ JsonLoadRaises(secrets_file)
       THEN /\ watch_pc' = "poll"
            /\ UNCHANGED loaded_version
       ELSE /\ watch_pc' = "load_hash"
            /\ loaded_version' = secrets_file
    /\ UNCHANGED <<secrets_file, NVCF_LAST_HASH, new_hash, applied,
                   file_writes, polls, detectorVars, secretsVars, threadVars,
                   collectorVars, counterVars,
                   offloadVars>>

\* _load_nvcf_secrets_to_env(), the rest: the hash of the file as it is now
\* is stored, then the secrets are applied
LoadHashAndApply(ok) ==
    /\ watch_pc = "load_hash"
    /\ NVCF_LAST_HASH' = file_sha256(secrets_file)
    /\ IF ApplyRaises(loaded_version)
       THEN UNCHANGED <<secretsVars, applied>>
       ELSE /\ SecretsApplied(apply_nvcf_secrets(Secrets,
                                  SecretsOf(loaded_version), TRUE, ok))
            /\ applied' = Append(applied, loaded_version)
    /\ watch_pc' = "poll"
    /\ UNCHANGED <<secrets_file, loaded_version, new_hash, file_writes, polls,
                   detectorVars, threadVars, collectorVars, counterVars,
                   offloadVars>>

\* one round of _loop, up to the test of the hash: sleep if there is no
\* file, no hash, or the hash is the stored one
PollHash ==
    /\ watch_pc = "poll"
    /\ polls < MaxPolls
    /\ polls' = polls + 1
    /\ IF secrets_file = Missing
       THEN UNCHANGED <<new_hash, watch_pc>>
       ELSE /\ new_hash' = file_sha256(secrets_file)
            /\ watch_pc' =
                   IF /\ file_sha256(secrets_file) # NoHash
                      /\ file_sha256(secrets_file) # NVCF_LAST_HASH
                   THEN "reload"
                   ELSE "poll"
    /\ UNCHANGED <<secrets_file, NVCF_LAST_HASH, loaded_version, applied,
                   file_writes, detectorVars, secretsVars, threadVars,
                   collectorVars, counterVars,
                   offloadVars>>

\* one round of _loop, the inner try: the file is opened and parsed, the
\* secrets are applied and new_hash is stored; any exception leaves the
\* round
PollReload(read_ok, ok) ==
    /\ watch_pc = "reload"
    /\ IF \/ secrets_file = Missing
          \/ ~read_ok
          \/ JsonLoadRaises(secrets_file)
          \/ ApplyRaises(secrets_file)
       THEN UNCHANGED <<secretsVars, applied, NVCF_LAST_HASH>>
       ELSE /\ SecretsApplied(apply_nvcf_secrets(Secrets,
                                  SecretsOf(secrets_file), FALSE, ok))
            /\ applied' = Append(applied, secrets_file)
            /\ NVCF_LAST_HASH' = new_hash
    /\ watch_pc' = "poll"
    /\ UNCHANGED <<secrets_file, loaded_version, new_hash, file_writes, polls,
                   detectorVars, threadVars, collectorVars, counterVars,
                   offloadVars>>

NextWatcher ==
    \/ \E version \in FileVersions \cup {Missing} : FileWritten(version)
    \/ \E read_ok \in BOOLEAN : LoadOpen(read_ok)
    \/ \E ok \in BOOLEAN : LoadHashAndApply(ok)
    \/ PollHash
    \/ \E read_ok \in BOOLEAN, ok \in BOOLEAN : PollReload(read_ok, ok)

SpecWatcher == InitWatcher /\ [][NextWatcher]_vars

\* ------------------------------------------------------------------------
\* The log pipeline: the listener thread gives each record to the filter
\* ------------------------------------------------------------------------

InitOffload ==
    /\ DetectorsIdle
    /\ SecretsLoaded([k \in EnvKeys |-> Absent])
    /\ ThreadsLoaded
    /\ CollectorLoaded([k \in CollectorKeys |-> Absent])
    /\ CountersLoaded
    /\ WatchLoaded(Missing)
    /\ \E f \in Filters : OffloadLoaded(f)

\* one call of filter(record); oks[k]: the k-th upload it tries returns a
\* uri
Filter(record, oks) ==
    LET out == filter(offload_filter, OFFLOAD_CACHE, uploads, record, oks)
    IN  /\ record_in' = record
        /\ record_out' = out.record
        /\ filter_ret' = out.ret
        /\ OFFLOAD_CACHE' = out.cache
        /\ uploads' = out.uploads
        /\ UNCHANGED <<offload_filter, detectorVars, secretsVars, threadVars,
                       collectorVars, counterVars, watchVars>>

\* the uploads a call can try: one for each item
Tries(record) == 1..Len(ItemsOfTargets(Targets(record)))

NextOffload ==
    /\ Len(uploads) < MaxUploads
    /\ \E record \in LogRecords :
           \E oks \in [Tries(record) -> BOOLEAN] : Filter(record, oks)

SpecOffload == InitOffload /\ [][NextOffload]_vars

\* the filter enabled, with a threshold every large payload reaches
InitOffloadCache ==
    /\ DetectorsIdle
    /\ SecretsLoaded([k \in EnvKeys |-> Absent])
    /\ ThreadsLoaded
    /\ CollectorLoaded([k \in CollectorKeys |-> Absent])
    /\ CountersLoaded
    /\ WatchLoaded(Missing)
    /\ OffloadLoaded([threshold_bytes |-> 2, enabled |-> TRUE])

\* a large payload not logged before
FreshPayload == BadPaddingPayload + 1 + Len(uploads)

\* the payloads of the records that fill the cache: a fresh one, the oldest
\* and the newest in the cache, and the one evicted last
CachePayloads ==
    LET cached == {OFFLOAD_CACHE[i].digest.sha256 : i \in 1..Len(OFFLOAD_CACHE)}
        evicted == {uploads[i] : i \in 1..Len(uploads)} \ cached
    IN  {FreshPayload}
            \cup (IF OFFLOAD_CACHE = <<>> THEN {}
                  ELSE {OFFLOAD_CACHE[1].digest.sha256,
                        OFFLOAD_CACHE[Len(OFFLOAD_CACHE)].digest.sha256})
            \cup (IF evicted = {} THEN {}
                  ELSE {CHOOSE p \in evicted : \A q \in evicted : q <= p})

NextOffloadCache ==
    /\ Len(uploads) < MaxCacheUploads
    /\ \E p \in CachePayloads, ok \in BOOLEAN :
           Filter(LogRecord(<<Word(1)>>, <<>>, <<DataUri(p)>>), <<ok>>)

SpecOffloadCache == InitOffloadCache /\ [][NextOffloadCache]_vars

\* ------------------------------------------------------------------------
\* What a host reassembles from the deltas
\* ------------------------------------------------------------------------

Markers == {bot_token, eot_token, call_begin_token, sep_token, call_end_token}

HasMarker(s) == \E t \in Markers : Contains(s, t)

IsPrefix(p, s) == StartsWith(s, p)

ItemsWithIndex(its, idx) == SelectSeq(its, LAMBDA it : it.tool_index = idx)

RECURSIVE ConcatParameters(_)
ConcatParameters(its) ==
    IF its = <<>> THEN <<>>
    ELSE Head(its).parameters \o ConcatParameters(Tail(its))

\* the arguments fragments emitted for idx, concatenated in emission order
ArgsOfIn(its, idx) == ConcatParameters(ItemsWithIndex(its, idx))

ArgsOf(idx) == ArgsOfIn(items, idx)

\* the items for idx that carry a name
NameItems(idx) == SelectSeq(ItemsWithIndex(items, idx), LAMBDA it : it.name # None)

EmittedIndices == {items[i].tool_index : i \in DOMAIN items}

RECURSIVE SortedSeq(_)
SortedSeq(S) == IF S = {} THEN <<>> ELSE <<Min(S)>> \o SortedSeq(S \ {Min(S)})

\* the calls reassembled by tool_index: the name of the name delta, the
\* arguments fragments concatenated
AssembledCalls ==
    LET idxs == SortedSeq(EmittedIndices)
    IN  [k \in 1..Len(idxs) |->
           [name |-> IF NameItems(idxs[k]) = <<>> THEN None
                     ELSE NameItems(idxs[k])[1].name,
            parameters |-> ArgsOf(idxs[k])]]

\* the names and arguments of the calls of a one-shot result
CallsOf(r) ==
    [k \in 1..Len(r.calls) |->
       [name |-> r.calls[k].name, parameters |-> r.calls[k].parameters]]

RECURSIVE CallsIn(_)
\* the complete calls of a text, in order: name and trimmed arguments text
CallsIn(s) ==
    LET m == func_detail_regex(s)
    IN  IF ~m.found THEN <<>>
        ELSE <<[name |-> Strip(m.name), args |-> Strip(m.args)]>>
                 \o CallsIn(From(s, m.end))

RECURSIVE WithoutCalls(_)
\* a text without its complete calls
WithoutCalls(s) ==
    LET m == func_detail_regex(s)
    IN  IF ~m.found THEN s
        ELSE Slice(s, 1, m.start - 1) \o WithoutCalls(From(s, m.end))

\* the part of a text that belongs to no call syntax: the complete calls
\* and every remaining marker and code fence removed
PlainPart(s) ==
    Replace(Replace(Replace(Replace(Replace(Replace(WithoutCalls(s),
        bot_token), eot_token), call_begin_token), sep_token), call_end_token),
        fence_token)

\* the whole text has been fed to the incremental parser
AllFed == feeds > 0 /\ pos = Len(text)

\* ------------------------------------------------------------------------
\* Claims
\* ------------------------------------------------------------------------

\* C1: once the whole text has been fed, in whatever fragmentation, the
\* concatenated normal_text deltas and the calls reassembled by tool_index
\* equal the normal_text and the calls of detect_and_parse on the whole text.
C1_StreamingEqualsOneShot ==
    AllFed =>
        /\ normal_out = detect_and_parse(text).normal_text
        /\ AssembledCalls = CallsOf(detect_and_parse(text))

\* C2: no normal_text returned by detect_and_parse or by an invocation of
\* parse_streaming_increment contains a marker token, and no marker forms
\* across the deltas of consecutive invocations.
C2_NoMarkerLeakage ==
    /\ ~HasMarker(parsed.normal_text)
    /\ ~HasMarker(result.normal_text)
    /\ ~HasMarker(normal_out)

\* C3: the concatenated normal_text deltas are the part of the input outside
\* call syntax: at every point a prefix of it, and all of it once the whole
\* text has been fed and nothing is withheld in the buffer.
C3_PlainTextReconstructed ==
    /\ IsPrefix(normal_out, PlainPart(text))
    /\ (AllFed /\ buffer = <<>>) => normal_out = PlainPart(text)

\* C4: for every tool_index among the emitted items, the first item with
\* that index carries a name and empty parameters, and every later item with
\* that index has name None.
C4_NameDeltaFirstAndOnce ==
    \A i \in DOMAIN items :
        LET first == Min({j \in DOMAIN items :
                            items[j].tool_index = items[i].tool_index})
        IN  IF i = first
            THEN items[i].name # None /\ items[i].parameters = <<>>
            ELSE items[i].name = None

\* C4 witness: a name delta followed by an arguments delta for the same index.
C4_Witness ==
    \E i, j \in DOMAIN items :
        /\ i < j
        /\ items[i].tool_index = items[j].tool_index
        /\ items[i].name # None
        /\ items[j].name = None
        /\ items[j].parameters # <<>>

\* C5: for every finalized call index the arguments fragments emitted for
\* it, concatenated, are the call's full arguments text (trimmed, between
\* the separator and the end-of-call marker) and are what
\* streamed_args_for_tool holds for that index.
C5_ArgumentsReconstructed ==
    \A idx \in 0..(current_tool_id - 1) :
        /\ ArgsOf(idx) = streamed_args_for_tool[idx + 1]
        /\ idx + 1 <= Len(CallsIn(text)) =>
               ArgsOf(idx) = CallsIn(text)[idx + 1].args

\* C6: in every invocation that streams arguments, the fragments emitted so
\* far for the active index, this invocation's included, are together a
\* prefix of the raw arguments text the invocation observes.
C6_NoReEmission ==
    [][LET current_text == buffer \o Slice(text, pos + 1, pos')
           m == partial_match(current_text)
       IN  (feeds' = feeds + 1 /\ current_tool_name_sent /\ m.found) =>
               IsPrefix(ArgsOfIn(items', current_tool_id), Strip(m.args))]_vars

\* C7: when the documented multi-call text has been fed, in whatever
\* fragmentation, and nothing is withheld, the first call was streamed under
\* tool_index 0 and the second under tool_index 1, each with its own name
\* and arguments.
C7_TwoCallsTwoIndices ==
    (text = MultiCallText /\ AllFed /\ buffer = <<>>) =>
        AssembledCalls =
            <<[name |-> <<"n">>, parameters |-> <<"{", "}">>],
              [name |-> <<"m">>, parameters |-> <<"1">>]>>

\* C8: detect_and_parse returns one item per well-formed call of the text,
\* in text order: both calls of the documented multi-call text.
C8_OneShotReturnsEveryCall ==
    (parsed # NoResult /\ text = MultiCallText) =>
        CallsOf(parsed) =
            <<[name |-> <<"n">>, parameters |-> <<"{", "}">>],
              [name |-> <<"m">>, parameters |-> <<"1">>]>>

\* the canonical JSON text of the valid arguments of the texts
Canonical(a) ==
    CASE a = <<"{", "}">> -> <<"{", "}">>
      [] a = <<"{", SP, "}">> -> <<"{", "}">>
      [] a = <<"{", "}", NL>> -> <<"{", "}">>
      [] a = <<"1">> -> <<"1">>

\* C9: for prefix + bot + call_begin + name + sep + valid JSON + call_end
\* (+ eot), detect_and_parse returns the trimmed prefix as normal_text and
\* exactly one item: the trimmed name, the canonical JSON, tool_index -1.
C9_OneShotSingleCall ==
    parsed # NoResult =>
        \A p \in Prefixes, n \in Names, a \in Arguments \ {<<"{">>},
           t \in {<<>>, eot_token} :
            text = p \o CallSection(n, a) \o t =>
                /\ parsed.normal_text = Strip(p)
                /\ parsed.calls =
                       <<[tool_index |-> -1, name |-> Strip(n),
                          parameters |-> Canonical(a)]>>

\* C9 witness: a parsed single call whose prefix and name had whitespace to
\* trim and whose arguments were not canonical.
C9_Witness ==
    /\ parsed # NoResult
    /\ text = <<SP, "x", NL>> \o CallSection(<<"m", SP>>, <<"{", SP, "}">>)
                \o eot_token
    /\ Len(parsed.calls) = 1

\* C10: for a text without the bot token detect_and_parse returns the text
\* unchanged as normal_text and no calls.
C10_OneShotNoStartMarker ==
    (parsed # NoResult /\ ~Contains(text, bot_token)) =>
        parsed = [normal_text |-> text, calls |-> <<>>]

\* C10 witness: a parsed text without bot token that trimming would change.
C10_Witness ==
    /\ parsed # NoResult
    /\ ~Contains(text, bot_token)
    /\ Strip(text) # text

\* the calls of a text whose arguments are valid JSON, in order, as
\* detect_and_parse is to return them
WellFormedCalls(s) ==
    LET cs == SelectSeq(CallsIn(s), LAMBDA c : JsonLoadsOk(c.args))
    IN  [k \in 1..Len(cs) |->
           [name |-> cs[k].name, parameters |-> JsonDumpsLoads(cs[k].args)]]

\* some call of the text has arguments that are not valid JSON
HasMalformedCall(s) ==
    \E k \in DOMAIN CallsIn(s) : ~JsonLoadsOk(CallsIn(s)[k].args)

\* C11: for a text in which some call's arguments are not valid JSON,
\* detect_and_parse returns a result whose calls are exactly the calls of the
\* text with valid arguments, in order, and whose normal_text is the trimmed
\* text before the bot token.
C11_OneShotMalformedCallIsLocal ==
    (parsed # NoResult /\ HasMalformedCall(text)) =>
        /\ CallsOf(parsed) = WellFormedCalls(text)
        /\ parsed.normal_text =
               Strip(Slice(text, 1, Find(text, bot_token, 1) - 1))

\* the text has the bot token but no call can be matched in it
CorruptOneShot(s) == Contains(s, bot_token) /\ ~func_detail_regex(s).found

\* C12: for a text that contains the bot token but in which no call can be
\* matched, detect_and_parse returns the original full text as normal_text
\* and no calls.
C12_OneShotCorruptReturnsFullText ==
    (parsed # NoResult /\ CorruptOneShot(text)) =>
        parsed = [normal_text |-> text, calls |-> <<>>]

\* bot and call_begin are both present but nowhere adjacent: the partial
\* pattern cannot match
MarkersOutOfOrder(s) ==
    /\ Contains(s, bot_token)
    /\ Contains(s, call_begin_token)
    /\ ~Contains(s, bot_token \o call_begin_token)

\* C13: an invocation after which the text received holds bot and call_begin
\* out of order emits no calls, and when its fragment is plain text (no
\* marker character) the fragment is returned as normal_text, not withheld.
C13_StreamingCorruptFailsSoft ==
    [][LET new_text == Slice(text, pos + 1, pos')
       IN  (feeds' = feeds + 1 /\ MarkersOutOfOrder(Slice(text, 1, pos'))) =>
               /\ result'.calls = <<>>
               /\ (new_text # <<>> /\ \A i \in DOMAIN new_text :
                                          new_text[i] \notin NameExcluded) =>
                      Contains(result'.normal_text, new_text)]_vars

\* the position after which the arguments of p + CallSection(n, a) start
ArgumentsOffset(p, n) ==
    Len(p) + Len(bot_token) + Len(call_begin_token) + Len(n) + Len(sep_token)

\* C14: one well-formed call followed by eot, fed to a fresh detector as two
\* fragments split inside the arguments: the first invocation returns
\* exactly one item, the name with empty parameters; the second returns
\* exactly one item with name None whose parameters are the whole trimmed
\* arguments text (none of it was emitted before), and leaves the call
\* finalized: current_tool_id 1, the name flag and the last arguments reset.
C14_TwoFragmentScenario ==
    [][\A p \in Prefixes, n \in Names, a \in Arguments :
        ( /\ text = p \o CallSection(n, a) \o eot_token
          /\ feeds = 1
          /\ pos > ArgumentsOffset(p, n)
          /\ pos < ArgumentsOffset(p, n) + Len(a)
          /\ feeds' = 2
          /\ pos' = Len(text) ) =>
            /\ result.calls = <<[tool_index |-> 0, name |-> Strip(n),
                                 parameters |-> <<>>]>>
            /\ result'.calls = <<[tool_index |-> 0, name |-> None,
                                  parameters |-> Strip(a)]>>
            /\ current_tool_id' = 1
            /\ current_tool_name_sent' = FALSE
            /\ last_arguments' = <<>>]_vars

\* C14 witness: the state after the second of two fragments split inside
\* the arguments "{ }" of a call with a prefix and a name to trim.
C14_Witness ==
    /\ text = <<SP, "x", NL>> \o CallSection(<<"m", SP>>, <<"{", SP, "}">>)
                \o eot_token
    /\ feeds = 2
    /\ pos = Len(text)
    /\ Len(items) = 2
    /\ items[1].name = <<"m">>
    /\ items[2].parameters = <<"{", SP, "}">>
    /\ current_tool_id = 1

RECURSIVE RunAlone(_)
\* a fresh detector fed the fragments one after the other and nothing else:
\* the state it reaches and the results it returns
RunAlone(frags) ==
    IF frags = <<>> THEN [self |-> NewDetector, results |-> <<>>]
    ELSE LET before == RunAlone(Slice(frags, 1, Len(frags) - 1))
             out == parse_streaming_increment(before.self, frags[Len(frags)])
         IN  [self |-> out.self, results |-> Append(before.results, out.result)]

C17_ActiveCallIndexMonotonic ==
    /\ [](feeds = 0 => current_tool_id = -1)
    /\ [][LET current_text == buffer \o Slice(text, pos + 1, pos')
              invoked == feeds' = feeds + 1
              finalized == current_tool_name_sent /\ ~current_tool_name_sent'
              active == IF current_tool_id = -1 THEN 0 ELSE current_tool_id
          IN  /\ current_tool_id' \in {current_tool_id, current_tool_id + 1}
              /\ (invoked /\ current_tool_id = -1) =>
                     (current_tool_id' = 0 <=> partial_match(current_text).found)
              /\ (invoked /\ current_tool_id >= 0) =>
                     (current_tool_id' = current_tool_id + 1 <=> finalized)
              /\ \A i \in (Len(items) + 1)..Len(items') :
                     items'[i].tool_index = active]_vars

\* C17 witness: two calls have been matched and finalized one after the
\* other, each streamed under its own index.
C17_Witness ==
    /\ current_tool_id = 2
    /\ EmittedIndices = {0, 1}

\* the buffer holds a matched call that is complete: its end-of-call marker
\* is present or its raw arguments are complete JSON
HoldsCompleteCall(buf) ==
    LET m == partial_match(buf)
    IN  /\ m.found
        /\ \/ Contains(buf, call_end_token)
           \/ IsCompleteJson(Strip(m.args))

\* C18: no invocation, the one that reveals the name included, leaves the
\* call whose name it has sent both complete in the buffer and not
\* finalized.
C18_FinalizedInSameInvocation ==
    feeds > 0 => ~(current_tool_name_sent /\ HoldsCompleteCall(buffer))

\* C19: for one call followed by the plain text "x": once the whole text has
\* been fed, the call is finalized and the buffer retains nothing, the "x"
\* after the call has been returned as normal_text.
C19_TrailingTextSurvives ==
    \A p \in Prefixes, n \in Names, a \in Arguments :
        ( /\ text = p \o CallSection(n, a) \o <<"x">>
          /\ AllFed
          /\ current_tool_id = 1
          /\ buffer = <<>> ) =>
            /\ normal_out # <<>>
            /\ normal_out[Len(normal_out)] = "x"

\* C20: an invocation that finalizes call k leaves in prev_tool_call_arr an
\* entry for k with the name sent for k and, as arguments, the raw
\* arguments text when it is not valid JSON, the parsed value when it is,
\* and the empty object when the text is empty.
C20_FinalizedCallNeverDropped ==
    [][LET current_text == buffer \o Slice(text, pos + 1, pos')
           raw == Strip(partial_match(current_text).args)
           k == current_tool_id
       IN  (feeds' = feeds + 1 /\ k >= 0 /\ current_tool_id' = k + 1) =>
               /\ Len(prev_tool_call_arr') >= k + 1
               /\ NameItems(k) # <<>>
               /\ prev_tool_call_arr'[k + 1].name = NameItems(k)[1].name
               /\ prev_tool_call_arr'[k + 1].arguments =
                      IF raw = <<>> THEN [is_str |-> FALSE, v |-> <<"{", "}">>]
                      ELSE IF JsonLoadsOk(raw)
                      THEN [is_str |-> FALSE, v |-> JsonDumpsLoads(raw)]
                      ELSE [is_str |-> TRUE, v |-> raw]]_vars

\* C20 witness: a finalized call whose entry holds raw arguments text, after
\* a call whose arguments "{" never became valid JSON.
C20_Witness ==
    /\ current_tool_id >= 1
    /\ prev_tool_call_arr[1].arguments = [is_str |-> TRUE, v |-> <<"{">>]

\* C21: once a call has been matched, no invocation shortens
\* prev_tool_call_arr, and no invocation changes the entry of a finalized
\* call (an index below current_tool_id).
C21_KnownCallsAppendOnly ==
    [][current_tool_id >= 0 =>
          /\ Len(prev_tool_call_arr') >= Len(prev_tool_call_arr)
          /\ \A i \in 0..(current_tool_id - 1) :
                 /\ i + 1 <= Len(prev_tool_call_arr)
                 /\ prev_tool_call_arr'[i + 1] = prev_tool_call_arr[i + 1]]_vars

\* C21 witness: a second call has been named and finalized after the first,
\* and both entries are there.
C21_Witness ==
    /\ current_tool_id = 2
    /\ Len(prev_tool_call_arr) = 2
    /\ prev_tool_call_arr[1].name # prev_tool_call_arr[2].name

IsSuffix(t, s) == Len(t) <= Len(s) /\ From(s, Len(s) - Len(t) + 1) = t

\* where the text of the call matched in s ends: after its end-of-call
\* marker when there is one, else at the end of s
CallTextEnd(s) ==
    LET m == partial_match(s)
        e == Find(s, call_end_token, m.start)
    IN  IF e = 0 THEN Len(s) ELSE e + Len(call_end_token) - 1

\* C22: after every invocation the buffer is a suffix of what the buffer
\* held before plus the new fragment; it is empty when the invocation
\* returned plain text; and when the invocation finalized a call it holds
\* nothing of the text up to the end of that call.
C22_BufferHoldsUndecidedTail ==
    [][LET current_text == buffer \o Slice(text, pos + 1, pos')
       IN  feeds' = feeds + 1 =>
               /\ IsSuffix(buffer', current_text)
               /\ result'.normal_text # <<>> => buffer' = <<>>
               /\ current_tool_id' = current_tool_id + 1 /\ current_tool_id >= 0 =>
                      Len(buffer') <= Len(current_text) - CallTextEnd(current_text)]_vars

\* C23: an invocation whose text (buffer plus fragment) holds an opening
\* marker but no match of the call pattern returns empty normal_text and no
\* calls and keeps the whole text in the buffer, also when the marker came
\* in an earlier fragment.
C23_WithholdWhileForming ==
    [][LET current_text == buffer \o Slice(text, pos + 1, pos')
       IN  ( /\ feeds' = feeds + 1
             /\ HasOpeningToken(current_text)
             /\ ~partial_match(current_text).found ) =>
               /\ result' = [normal_text |-> <<>>, calls |-> <<>>]
               /\ buffer' = current_text]_vars

\* C24: an invocation whose text (buffer plus fragment) holds neither the
\* bot token nor the call_begin token returns that text with the marker
\* substrings removed as normal_text, returns no calls and leaves the buffer
\* empty.
C24_PlainTextPassThrough ==
    [][LET current_text == buffer \o Slice(text, pos + 1, pos')
       IN  ( /\ feeds' = feeds + 1
             /\ ~Contains(current_text, bot_token)
             /\ ~Contains(current_text, call_begin_token) ) =>
               /\ result' = [normal_text |-> filtered_text(current_text),
                             calls |-> <<>>]
               /\ buffer' = <<>>]_vars

\* C25: in an invocation that finds the name of the active call already
\* sent, with raw the trimmed arguments text it observes: when raw starts
\* with _last_arguments the one item returned carries the rest of raw, and
\* no item is returned when the rest is empty; otherwise the item carries
\* all of raw; and the fragment is appended to what was emitted for the
\* call (_last_arguments, until finalization resets it, and
\* streamed_args_for_tool).
C25_ArgumentDiffRule ==
    [][LET current_text == buffer \o Slice(text, pos + 1, pos')
           m == partial_match(current_text)
           raw == Strip(m.args)
           diff == IF IsPrefix(last_arguments, raw)
                   THEN From(raw, Len(last_arguments) + 1)
                   ELSE raw
           k == current_tool_id
       IN  (feeds' = feeds + 1 /\ current_tool_name_sent /\ m.found) =>
               /\ result'.calls =
                      IF diff = <<>> THEN <<>>
                      ELSE <<[tool_index |-> k, name |-> None,
                              parameters |-> diff]>>
               /\ streamed_args_for_tool'[k + 1] =
                      streamed_args_for_tool[k + 1] \o diff
               /\ \/ last_arguments' = last_arguments \o diff
                  \/ current_tool_id' = k + 1 /\ last_arguments' = <<>>]_vars

\* C25 witness: the arguments "1" of a call were observed as "1<|" first:
\* the second observation did not start with what was emitted and was
\* emitted whole.
C25_Witness ==
    /\ current_tool_id = 1
    /\ streamed_args_for_tool[1] = <<"1", LT, "1">>

\* C26: for one well-formed call, whatever surrounds it: in every state in
\* which the call has been fed completely, its name has been emitted and
\* the last invocation was not the one that emitted the name, the call is
\* finalized and its trimmed arguments text is in what was emitted for it;
\* and an invocation that finds the name sent and the end-of-call marker in
\* its text leaves the call finalized.
C26_StartedCallCompletes ==
    /\ [](\A p \in Prefixes, n \in Names, a \in Arguments, t \in Tails :
            ( /\ text = p \o CallSection(n, a) \o t
              /\ pos >= Len(p \o CallSection(n, a))
              /\ NameItems(0) # <<>>
              /\ result.calls # NameItems(0) ) =>
                /\ current_tool_id >= 1
                /\ Contains(ArgsOf(0), Strip(a)))
    /\ [][( /\ feeds' = feeds + 1
            /\ current_tool_name_sent
            /\ Contains(buffer \o Slice(text, pos + 1, pos'), call_end_token) ) =>
              /\ current_tool_id' = current_tool_id + 1
              /\ ~current_tool_name_sent']_vars

\* C26 witness: the whole call arrived with the fragment that revealed its
\* name, and one more invocation, with an empty fragment, finalized it.
C26_Witness ==
    /\ text = CallSection(<<"n">>, <<"1">>) \o eot_token
    /\ feeds = 2
    /\ Len(items) = 2
    /\ items[2].parameters = <<"1">>
    /\ buffer = eot_token
    /\ current_tool_id = 1

\* C27: detect_and_parse has returned calls only for a text on which
\* has_tool_call is true, and parse_streaming_increment has emitted items
\* only when has_tool_call is true of the fragments fed so far,
\* concatenated.
C27_HasToolCallAgrees ==
    /\ parsed.calls # <<>> => has_tool_call(text)
    /\ items # <<>> => has_tool_call(Slice(text, 1, pos))

\* C27 witness: an item has been emitted before the text was fed to its
\* end, the tool-calls-end token not among what was fed.
C27_Witness ==
    /\ items # <<>>
    /\ pos < Len(text)
    /\ ~Contains(Slice(text, 1, pos), eot_token)

\* C28: for the call written in the shape of the grammar's call rule,
\* detect_and_parse returns one call with the tool name and the JSON
\* arguments, and parse_streaming_increment names the call with the tool
\* name and, once it has finalized it, has streamed the JSON arguments.
C28_GrammarAndParserAgree ==
    text = GrammarCallText =>
        /\ parsed # NoResult =>
               CallsOf(parsed) =
                   <<[name |-> <<"n">>, parameters |-> <<"{", "}">>]>>
        /\ items # <<>> => items[1].name = <<"n">>
        /\ current_tool_id >= 1 =>
               AssembledCalls =
                   <<[name |-> <<"n">>, parameters |-> <<"{", "}">>]>>

\* C29: a key the operator had set when the process started keeps the
\* operator's value through every load and reload, and the operator's
\* credentials file keeps its contents; a load or reload changes only keys
\* that were absent or are in _NVCF_SET_KEYS, and changes only the
\* credentials file it created, in that call or earlier.
C29_SecretsNeverOverrideOperator ==
    /\ [](/\ \A k \in EnvKeys :
               operator_environ[k] # Absent => environ[k] = operator_environ[k]
          /\ cred_files[OperatorCredPath] = OperatorCredFiles[OperatorCredPath])
    /\ [][/\ \A k \in EnvKeys :
               environ'[k] # environ[k] =>
                   environ[k] = Absent \/ k \in NVCF_SET_KEYS
          /\ \A p \in CredPaths :
               cred_files'[p] # cred_files[p] =>
                   /\ p = NVCF_CREATED_CRED_FILE'
                   /\ NVCF_CREATED_CRED_FILE \in {Absent, p}]_vars

\* C29 witness: the operator had set the production client id and it is
\* still theirs; the loader set the production secret on the first load and
\* the generic secret, first set to the same value, was changed by a reload,
\* which also rewrote the credentials file the loader had created.
C29_Witness ==
    /\ operator_environ[PROD_CID] = "op"
    /\ environ[PROD_CID] = "op"
    /\ {PROD_CSEC, GEN_CSEC} \subseteq NVCF_SET_KEYS
    /\ environ[PROD_CSEC] = "s1"
    /\ environ[GEN_CSEC] = "s2"
    /\ NVCF_CREATED_CRED_FILE = NVCF_DEFAULT_CRED_PATH
    /\ Len(cred_files[NVCF_DEFAULT_CRED_PATH]) = 2
    /\ cred_files[NVCF_DEFAULT_CRED_PATH][2] = "s2"

\* C30: however the calls of start_prom_to_otel_bridge and of
\* _start_nvcf_secrets_watcher from several threads interleave, at most one
\* sglang-prom-bridge thread and at most one sglang-nvcf-secrets thread
\* have been started.
C30_AtMostOneThreadOfEachKind ==
    /\ bridge_threads <= 1
    /\ watcher_threads <= 1

\* C35: streaming bookkeeping stays consistent.  After any sequence of
\* invocations of parse_streaming_increment, _last_arguments is the
\* concatenation of the arguments fragments emitted for the active call
\* index, and it equals streamed_args_for_tool[current_tool_id] whenever
\* that entry exists; once an invocation has matched a call,
\* prev_tool_call_arr and streamed_args_for_tool have the same length; and
\* every tool_index emitted is a valid index into both lists.
C35_BookkeepingConsistent ==
    /\ last_arguments = ArgsOf(current_tool_id)
    /\ (0 <= current_tool_id /\ current_tool_id < Len(streamed_args_for_tool))
           => last_arguments = streamed_args_for_tool[current_tool_id + 1]
    /\ current_tool_id # -1
           => Len(prev_tool_call_arr) = Len(streamed_args_for_tool)
    /\ \A k \in 1..Len(items) :
           /\ 0 <= items[k].tool_index
           /\ items[k].tool_index < Len(prev_tool_call_arr)
           /\ items[k].tool_index < Len(streamed_args_for_tool)

\* a second call is active with part of its arguments sent, after the
\* first was finalized
C35_Witness ==
    /\ current_tool_id = 1
    /\ last_arguments # <<>>
    /\ Len(streamed_args_for_tool) = 2
    /\ streamed_args_for_tool[1] # <<>>
    /\ streamed_args_for_tool[2] = last_arguments

\* the health checks of the wait so far
HealthChecks == SelectSeq(wait_trace, LAMBDA e : e # "sleep")

WaitEnabled == is_truthy(getenv(collector_environ, HEALTH_WAIT, "0"))

\* C31: the collector wait terminates.  With waiting enabled,
\* _maybe_wait_for_collector returns as soon as one health check succeeds;
\* if every check fails it returns after exactly max_retries + 1 health
\* checks (for max_retries >= 0), having slept between two checks and not
\* after the last one; with waiting disabled it makes no health check.  In
\* every case the call returns.
C31_CollectorWaitTerminates ==
    /\ [](/\ ~WaitEnabled => wait_trace = <<>>
          /\ \A i \in 1..Len(wait_trace) :
                 /\ wait_trace[i] = "ok" => i = Len(wait_trace) /\ wait_pc = "returned"
                 /\ wait_trace[i] = "sleep" <=> i % 2 = 0
          /\ (wait_pc = "returned" /\ WaitEnabled /\ max_retries >= 0)
                 => /\ wait_trace # <<>>
                    /\ wait_trace[Len(wait_trace)] # "sleep"
                    /\ wait_trace[Len(wait_trace)] = "fail"
                           => Len(HealthChecks) = max_retries + 1
          /\ Len(HealthChecks) <= max_retries + 1 \/ wait_trace = <<>>)
    /\ <>(wait_pc = "returned")

\* every check failed and the call returned after max_retries + 1 = 3 checks
\* and two sleeps
C31_Witness ==
    /\ wait_pc = "returned"
    /\ max_retries = 2
    /\ wait_trace = <<"fail", "sleep", "fail", "sleep", "fail">>

\* the samples that are bridged as counters, and the map their previous
\* value is kept in
IsCounted(raw_name) ==
    \/ FamilyTypeOf(raw_name) = "counter"
    \/ /\ FamilyTypeOf(raw_name) = "histogram"
       /\ \/ EndsWith(raw_name, "_count")
          \/ EndsWith(raw_name, "_sum")
          \/ EndsWith(raw_name, "_bucket")
    \/ /\ FamilyTypeOf(raw_name) = "summary"
       /\ EndsWith(raw_name, "_count") \/ EndsWith(raw_name, "_sum")

PrevMapOf(raw_name) ==
    IF FamilyTypeOf(raw_name) = "histogram" /\ EndsWith(raw_name, "_bucket")
    THEN PROM_BUCKET_PREV
    ELSE PROM_COUNTER_PREV

CountedSeries == {s \in DOMAIN scraped : IsCounted(s[1])}

KeyOf(s) == <<sanitize_metric_name(s[1]), s[2]>>

AddedTo(s) == Get(otel_added, KeyOf(s), <<>>)

SumSeq(q) ==
    LET RECURSIVE Sum(_)
        Sum(i) == IF i = 0 THEN 0 ELSE q[i] + Sum(i - 1)
    IN  Sum(Len(q))

NonDecreasing(q) == \A i \in 1..(Len(q) - 1) : q[i] <= q[i + 1]

\* C32: counters are bridged by deltas.  For the values scraped of one
\* counter series (same name and labels): every amount added to the OTEL
\* counter is strictly positive; while the values scraped do not decrease,
\* the amounts added sum to the last value scraped; when a value scraped is
\* lower than the one before (a reset), the amount added is the new value
\* itself; the previous value stored is always the last value scraped.
C32_CounterBridgedByDeltas ==
    /\ [](\A s \in CountedSeries :
              /\ \A i \in 1..Len(AddedTo(s)) : AddedTo(s)[i] > 0
              /\ NonDecreasing(scraped[s])
                     => SumSeq(AddedTo(s)) = scraped[s][Len(scraped[s])]
              /\ KeyOf(s) \in DOMAIN PrevMapOf(s[1])
              /\ PrevMapOf(s[1])[KeyOf(s)] = scraped[s][Len(scraped[s])])
    /\ [][\A s \in (DOMAIN scraped') \cap (DOMAIN scraped) :
              LET value == scraped'[s][Len(scraped'[s])]
              IN  (/\ IsCounted(s[1])
                   /\ scraped'[s] # scraped[s]
                   /\ 0 < value
                   /\ value < scraped[s][Len(scraped[s])])
                      => Get(otel_added', KeyOf(s), <<>>)
                             = Append(AddedTo(s), value)]_vars

\* C33: a changed secrets file is applied exactly when it parses.  The
\* watcher sets _NVCF_LAST_HASH to the hash of the file only after it has
\* read and applied that file; when reading or parsing fails the stored
\* hash is unchanged, so that the same file is tried again on the next
\* poll; a file whose hash equals the stored hash is never applied again.
C33_ChangedFileAppliedWhenItParses ==
    [][/\ (watch_pc = "reload" /\ NVCF_LAST_HASH' # NVCF_LAST_HASH)
              => /\ Len(applied') = Len(applied) + 1
                 /\ NVCF_LAST_HASH' = file_sha256(applied'[Len(applied')])
       /\ (watch_pc = "reload" /\ applied' = applied)
              => NVCF_LAST_HASH' = NVCF_LAST_HASH
       /\ (/\ watch_pc = "poll"
           /\ polls' # polls
           /\ secrets_file # Missing
           /\ file_sha256(secrets_file) # NVCF_LAST_HASH)
              => watch_pc' = "reload"
       /\ (watch_pc = "reload" /\ applied' # applied)
              => file_sha256(applied'[Len(applied')]) # NVCF_LAST_HASH]_vars

\* the data URIs a record carries: those of its message, of the arguments
\* of the message and of its attribute
RECURSIVE Flatten(_)
Flatten(ss) == IF ss = <<>> THEN <<>> ELSE Head(ss) \o Flatten(Tail(ss))

PayloadsOf(record) ==
    extract_data_uris(record.msg \o Flatten(record.args) \o record.image)

\* the estimated size of the payloads of a record
PayloadEstBytes(record) ==
    LET ps == PayloadsOf(record)
        RECURSIVE Sum(_)
        Sum(i) == IF i = 0 THEN 0 ELSE EstBytes(ps[i]) + Sum(i - 1)
    IN  Sum(Len(ps))

\* t is s with some of its data URIs replaced by offloaded references
UrisReplaced(s, t) ==
    /\ Len(t) = Len(s)
    /\ \A i \in 1..Len(s) :
           \/ t[i] = s[i]
           \/ s[i].kind = "data" /\ t[i].kind = "offloaded"

\* C34: the offload filter never drops or damages a log record.  filter
\* returns True on every path, and it leaves every field of the record as
\* it was unless offloading is enabled, the estimated size of the payloads
\* of the record reaches the threshold and an upload returned a URI; then
\* only data URIs are replaced by their offloaded references, and the
\* message of the record can still be formatted.
C34_FilterNeverDropsOrDamages ==
    /\ filter_ret = TRUE
    /\ [record_out EXCEPT !.kratos_uri = 0, !.kratos_bulk_upload_id = 0]
           # record_in
           => /\ offload_filter.enabled
              /\ PayloadEstBytes(record_in) >= offload_filter.threshold_bytes
              /\ record_out.kratos_uri # 0
    /\ UrisReplaced(record_in.msg, record_out.msg)
    /\ UrisReplaced(record_in.image, record_out.image)
    /\ record_out.args = record_in.args
    /\ ~getMessage(record_in).raises => ~getMessage(record_out).raises
    /\ record_out.kratos_uri = 0 => record_out = record_in

CachedDigests == {OFFLOAD_CACHE[i].digest : i \in 1..Len(OFFLOAD_CACHE)}

\* C36: the offload cache is bounded.  After any sequence of records given
\* to filter, _OFFLOAD_CACHE never holds more than 1025 entries, because
\* the oldest entry is evicted before each insertion made while the cache
\* holds more than 1024 entries; and a payload whose digest is in the cache
\* is never uploaded again.
C36_OffloadCacheBounded ==
    /\ [](Len(OFFLOAD_CACHE) <= OFFLOAD_CACHE_MAX + 1)
    /\ [][/\ (OFFLOAD_CACHE' # OFFLOAD_CACHE
              /\ Len(OFFLOAD_CACHE) > OFFLOAD_CACHE_MAX)
                 => /\ Len(OFFLOAD_CACHE') = Len(OFFLOAD_CACHE)
                    /\ SubSeq(OFFLOAD_CACHE', 1, Len(OFFLOAD_CACHE) - 1)
                           = Tail(OFFLOAD_CACHE)
          /\ \A i \in (Len(uploads) + 1)..Len(uploads') :
                 Sha256Hex(uploads'[i]) \notin CachedDigests
          /\ Sha256Hex(record_in'.image[1].n) \in CachedDigests
                 => /\ uploads' = uploads
                    /\ OFFLOAD_CACHE' = OFFLOAD_CACHE
                    /\ record_out'.image = <<Offloaded(CacheGet(OFFLOAD_CACHE,
                                              Sha256Hex(record_in'.image[1].n)))>>]_vars

\* the cache is full, an entry has been evicted, and the record just
\* filtered was answered from the cache
C36_Witness ==
    /\ Len(OFFLOAD_CACHE) = OFFLOAD_CACHE_MAX + 1
    /\ Len(uploads) > Len(OFFLOAD_CACHE)
    /\ record_in.image # <<>>
    /\ record_out.kratos_uri # 0
    /\ record_out.kratos_bulk_upload_id = 0

====
